---- MODULE Spec2Model ----
(***************************************************************************)
(* Five-in-a-row over one TCP connection (COAOX/tictactoe, main.go).       *)
(*                                                                         *)
(* The specifications share the definitions translated from main.go:       *)
(*   Spec      the two-peer system: a listening and a connecting process,  *)
(*             each with its event loop, network receiver, input reader    *)
(*             and fire-and-forget sender goroutines, joined by one        *)
(*             connection that delivers what is written, in order;         *)
(*   SpecSide  one process whose peer is arbitrary: its event loop handles *)
(*             any message of the wire schema and any input line;          *)
(*   SpecWin   the pure function checkWinLogic on boards drawn from a      *)
(*             bounded family;                                             *)
(*   SpecFair  one process and its peer at the end of a game, with the     *)
(*             fairness of the Go scheduler, for shutdown;                 *)
(*   SpecChat  AddChatMessage on chat logs of bounded length;              *)
(*   SpecRedraw  SetNeedsRedraw and CheckAndResetRedraw, statement by      *)
(*             statement, called concurrently;                             *)
(*   SpecEarly the earlier engine variant of part_000 and its locking;     *)
(*   SpecT3    the 3x3 game of part_000: NewGame and MakeMove.             *)
(***************************************************************************)
EXTENDS Integers, Sequences, FiniteSets, Bags, TLC

VARIABLES
    board,          \* gs.board, per process: [0..14 -> [0..14 -> 0..2]]
    currentPlayer,  \* gs.currentPlayer
    winner,         \* gs.winner
    gameOver,       \* gs.gameOver
    playerID,       \* gs.playerID
    chatHistory,    \* gs.chatHistory
    needsRedraw,    \* gs.needsRedraw
    inputChan,      \* gs.inputChan: number of lines queued (capacity 1)
    networkMsgChan, \* gs.networkMsgChan: queued decoded messages (capacity 10)
    quitChan,       \* number of close(gs.quitChan) executed: 0 open, 1 closed,
                    \* 2 a close of the closed channel (runtime panic)
    loop,           \* position of main's event loop / the process
    messageToSend,  \* handleUserInput's local messageToSend while the loop is
                    \* between its quitChan check and its close
    recv,           \* position (and decoded message) of networkReceiver
    inp,            \* position of inputReader
    senders,        \* bag of messages held by started `go gs.SendMessage(m)`
    wire,           \* encoded messages written to the connection, per reader
    ev,             \* the event the loop handled in the last step (history)
    callBoard,      \* SpecWin: the board handed to checkWinLogic
    callEdited,     \* SpecWin: the board was edited after it was drawn
    callRet,        \* SpecWin: the last call and its result (history)
    appended,       \* SpecChat: the entries handed to AddChatMessage (history)
    redrawMu,       \* SpecRedraw: the task that holds gs.redrawMu, or "none"
    redrawTask,     \* SpecRedraw: per task, the call it is in and its locals
    requested,      \* SpecRedraw: SetNeedsRedraw calls since the last check
                    \* read the flag (history)
    game            \* SpecT3: the TicTacToe struct of the 3x3 game

gameVars == <<board, currentPlayer, winner, gameOver, playerID, chatHistory,
              needsRedraw>>
procVars == <<inputChan, networkMsgChan, quitChan, loop, messageToSend, recv,
              inp, senders, wire>>
unitVars == <<appended, redrawMu, redrawTask, requested, game>>
callVars == <<callBoard, callEdited, callRet, unitVars>>
vars == <<gameVars, procVars, ev, callVars>>

(***************************************************************************)
(* Constants of main.go                                                    *)
(***************************************************************************)
BoardSize == 15
Empty == 0
Player1 == 1
Player2 == 2
Draw == 3
maxChatHistory == 20
InputChanCap == 1
NetworkMsgChanCap == 10

MsgTypeMove == "move"
MsgTypeChat == "chat"
MsgTypeState == "state"
MsgTypeAssign == "assign"
MsgTypeError == "error"
MsgTypeNotify == "notify"

(***************************************************************************)
(* Bounds of the model                                                     *)
(***************************************************************************)
WinSize == 6        \* SpecWin: side of the boards handed to checkWinLogic
MaxRun == 5         \* SpecWin: longest run of stones a drawn board starts with
MaxWire == 3        \* messages the connection buffers in one direction
MaxChatLog == 1     \* SpecSide: chat entries logged before chat stops
MaxChatAdds == 3    \* SpecChat: AddChatMessage calls made on a drawn log
MaxRequests == 2    \* SpecRedraw: unconsumed requests when a further one starts
MaxCoord == 3       \* SpecT3: largest row and column handed to MakeMove

(***************************************************************************)
(* Board and rules                                                         *)
(***************************************************************************)
NewBoard(size) == [i \in 0..(size - 1) |-> [j \in 0..(size - 1) |-> Empty]]

checkWinLogic_NoLeftEdge(b, player) ==
    LET size == Cardinality(DOMAIN b)
    IN \E i \in 0..(size - 1), j \in 0..(size - 1) :
         /\ b[i][j] = player
         /\ \/ /\ j + 4 < size
               /\ \A k \in 1..4 : b[i][j + k] = player
            \/ /\ i + 4 < size
               /\ \A k \in 1..4 : b[i + k][j] = player
            \/ /\ i + 4 < size /\ j + 4 < size
               /\ \A k \in 1..4 : b[i + k][j + k] = player
            \/ /\ i + 4 < size /\ j - 4 > 0
               /\ \A k \in 1..4 : b[i + k][j - k] = player

checkWinLogic(b, player) ==
    LET size == Cardinality(DOMAIN b)
    IN \E i \in 0..(size - 1), j \in 0..(size - 1) :
         /\ b[i][j] = player
         /\ \/ /\ j + 4 < size
               /\ b[i][j + 1] = player /\ b[i][j + 2] = player
               /\ b[i][j + 3] = player /\ b[i][j + 4] = player
            \/ /\ i + 4 < size
               /\ b[i + 1][j] = player /\ b[i + 2][j] = player
               /\ b[i + 3][j] = player /\ b[i + 4][j] = player
            \/ /\ i + 4 < size /\ j + 4 < size
               /\ b[i + 1][j + 1] = player /\ b[i + 2][j + 2] = player
               /\ b[i + 3][j + 3] = player /\ b[i + 4][j + 4] = player
            \/ /\ i + 4 < size /\ j - 4 >= 0
               /\ b[i + 1][j - 1] = player /\ b[i + 2][j - 2] = player
               /\ b[i + 3][j - 3] = player /\ b[i + 4][j - 4] = player

checkDrawLogic(b) ==
    \A i \in DOMAIN b : \A j \in DOMAIN b[i] : b[i][j] # Empty

placePieceInternal_Overwrite(b, x, y, player) ==
    IF x < 0 \/ x >= BoardSize \/ y < 0 \/ y >= BoardSize
    THEN [valid |-> FALSE, board |-> b]
    ELSE [valid |-> TRUE, board |-> [b EXCEPT ![x][y] = player]]

\* placePieceInternal returns whether the piece was placed; the board it
\* leaves is returned with it.
placePieceInternal(b, x, y, player) ==
    IF x < 0 \/ x >= BoardSize \/ y < 0 \/ y >= BoardSize \/ b[x][y] # Empty
    THEN [valid |-> FALSE, board |-> b]
    ELSE [valid |-> TRUE, board |-> [b EXCEPT ![x][y] = player]]

(***************************************************************************)
(* Messages and their JSON encoding                                        *)
(***************************************************************************)
Fields == {"Type", "Player", "X", "Y", "Content", "Turn", "Winner"}
ZeroValue(f) == IF f \in {"Type", "Content"} THEN "" ELSE 0

\* Message{...} literal: the fields not named keep Go's zero value.
Message(type, player, x, y, content, turn, win) ==
    [Type |-> type, Player |-> player, X |-> x, Y |-> y, Content |-> content,
     Turn |-> turn, Winner |-> win]

\* json.Encoder.Encode: "type" and "player" are always written, the fields
\* tagged omitempty only when they differ from the zero value.
Encode(m) ==
    [f \in {g \in Fields : g \in {"Type", "Player"} \/ m[g] # ZeroValue(g)}
        |-> m[f]]

\* json.Decoder.Decode into a fresh `var msg Message`: a key that is absent
\* leaves the zero value.
Decode(w) ==
    [f \in Fields |-> IF f \in DOMAIN w THEN w[f] ELSE ZeroValue(f)]

NoMessage == [Type |-> "nil"]

(***************************************************************************)
(* Chat log                                                                *)
(***************************************************************************)
AddChatMessage_KeepOldest(history, sender, message) ==
    LET h == Append(history, <<sender, message>>)
    IN IF Len(h) > maxChatHistory
       THEN SubSeq(h, 1, maxChatHistory)
       ELSE h

\* fmt.Sprintf("[%s]: %s", sender, message) is kept as the pair it prints.
AddChatMessage(history, sender, message) ==
    LET h == Append(history, <<sender, message>>)
    IN IF Len(h) > maxChatHistory
       THEN SubSeq(h, Len(h) - maxChatHistory + 1, Len(h))
       ELSE h

\* fmt.Sprintf("Player %d", msg.Player)
senderName(msg) == <<"Player", msg.Player>>
\* fmt.Sprintf("You (Player %d)", myPlayerID)
localName(id) == <<"You (Player)", id>>

(***************************************************************************)
(* handleNetworkMessage, as a function of the game state and the message.  *)
(* gs is the record of the fields guarded by gs.mu and gs.chatMu.  The     *)
(* result says what the handler left (gs), whether it called               *)
(* SetNeedsRedraw (redraw), what placePieceInternal returned (valid:       *)
(* "none" when it was not called), whether it wrote an Error reply with a  *)
(* direct SendMessage call (sendError), and whether it reached the         *)
(* gs.mu.Unlock() of line 424 with gs.mu already unlocked at line 345      *)
(* (fatal: the runtime ends the process with "sync: unlock of unlocked     *)
(* mutex").                                                                *)
(***************************************************************************)
NetResult(gs, redraw, valid, sendError, fatal) ==
    [gs |-> gs, redraw |-> redraw, valid |-> valid, sendError |-> sendError,
     fatal |-> fatal]

inboundMoveOutcome_DrawFirst(gs, msg) ==
    IF checkDrawLogic(gs.board)
    THEN [gs EXCEPT !.winner = Draw, !.gameOver = TRUE]
    ELSE IF checkWinLogic(gs.board, msg.Player)
    THEN [gs EXCEPT !.winner = msg.Player, !.gameOver = TRUE]
    ELSE [gs EXCEPT !.currentPlayer = gs.playerID]

\* lines 361-372: the outcome of an inbound move that was placed
inboundMoveOutcome(gs, msg) ==
    IF checkWinLogic(gs.board, msg.Player)
    THEN [gs EXCEPT !.winner = msg.Player, !.gameOver = TRUE]
    ELSE IF checkDrawLogic(gs.board)
    THEN [gs EXCEPT !.winner = Draw, !.gameOver = TRUE]
    ELSE [gs EXCEPT !.currentPlayer = gs.playerID]

MoveResult_SilentReject(gs, msg) ==
    LET p == placePieceInternal(gs.board, msg.X, msg.Y, msg.Player)
    IN IF p.valid
       THEN NetResult(inboundMoveOutcome([gs EXCEPT !.board = p.board], msg),
                      TRUE, "true", FALSE, FALSE)
       ELSE NetResult(gs, FALSE, "false", FALSE, FALSE)

\* lines 359-383: an inbound Move that passed the turn check
MoveResult(gs, msg) ==
    LET p == placePieceInternal(gs.board, msg.X, msg.Y, msg.Player)
    IN IF p.valid
       THEN NetResult(inboundMoveOutcome([gs EXCEPT !.board = p.board], msg),
                      TRUE, "true", FALSE, FALSE)
       ELSE NetResult(gs, FALSE, "false", TRUE, FALSE)

handleMove_AcceptEcho(gs, msg) ==
    IF gs.currentPlayer = msg.Player
    THEN MoveResult(gs, msg)
    ELSE [gs |-> gs, redraw |-> FALSE, valid |-> "none", sendError |-> FALSE,
          fatal |-> FALSE]

handleMove_NoTurnCheck(gs, msg) ==
    IF msg.Player # gs.playerID
    THEN MoveResult(gs, msg)
    ELSE [gs |-> gs, redraw |-> FALSE, valid |-> "none", sendError |-> FALSE,
          fatal |-> FALSE]

\* lines 355-384
handleMove(gs, msg) ==
    IF msg.Player # gs.playerID /\ gs.currentPlayer = msg.Player
    THEN MoveResult(gs, msg)
    ELSE NetResult(gs, FALSE, "none", FALSE, FALSE)

handleAssign_TurnToSelf(gs, msg) ==
    IF gs.playerID = 0
    THEN [gs |-> [gs EXCEPT !.playerID = msg.Player,
                            !.currentPlayer = msg.Player],
          redraw |-> TRUE, valid |-> "none", sendError |-> FALSE, fatal |-> FALSE]
    ELSE [gs |-> gs, redraw |-> FALSE, valid |-> "none", sendError |-> FALSE,
          fatal |-> FALSE]

handleAssign_AlwaysPlayer1(gs, msg) ==
    IF gs.playerID = 0
    THEN [gs |-> [gs EXCEPT !.playerID = Player1, !.currentPlayer = Player1],
          redraw |-> TRUE, valid |-> "none", sendError |-> FALSE, fatal |-> FALSE]
    ELSE [gs |-> gs, redraw |-> FALSE, valid |-> "none", sendError |-> FALSE,
          fatal |-> FALSE]

\* lines 400-411
handleAssign(gs, msg) ==
    IF gs.playerID = 0
    THEN NetResult([gs EXCEPT !.playerID = msg.Player,
                              !.currentPlayer = Player1],
                   TRUE, "none", FALSE, FALSE)
    ELSE NetResult(gs, FALSE, "none", FALSE, FALSE)

handleState_KeepTurn(gs, msg) ==
    NetResult([gs EXCEPT !.winner = msg.Winner,
                         !.gameOver = (msg.Winner # 0)],
              TRUE, "none", FALSE, FALSE)

\* lines 392-399
handleState(gs, msg) ==
    NetResult([gs EXCEPT !.currentPlayer = msg.Turn,
                         !.winner = msg.Winner,
                         !.gameOver = (msg.Winner # 0)],
              TRUE, "none", FALSE, FALSE)

\* lines 385-391
handleChat(gs, msg) ==
    IF msg.Player # gs.playerID
    THEN NetResult([gs EXCEPT !.chatHistory =
                        AddChatMessage(gs.chatHistory, senderName(msg), msg.Content)],
                   TRUE, "none", FALSE, FALSE)
    ELSE NetResult(gs, FALSE, "none", FALSE, FALSE)

handleNetworkMessage_AlwaysDispatch(gs, msg) ==
    CASE msg.Type = MsgTypeMove -> handleMove(gs, msg)
      [] msg.Type = MsgTypeChat -> handleChat(gs, msg)
      [] msg.Type = MsgTypeState -> handleState(gs, msg)
      [] msg.Type = MsgTypeAssign -> handleAssign(gs, msg)
      [] msg.Type = MsgTypeError -> NetResult(gs, TRUE, "none", FALSE, FALSE)
      [] msg.Type = MsgTypeNotify -> NetResult(gs, TRUE, "none", FALSE, FALSE)
      [] OTHER -> NetResult(gs, FALSE, "none", FALSE, FALSE)

\* lines 336-429 (the close of quitChan at lines 430-437 is in the action)
handleNetworkMessage(gs, msg) ==
    IF gs.gameOver
    THEN IF msg.Type = MsgTypeChat
         THEN NetResult([gs EXCEPT !.chatHistory =
                            AddChatMessage(gs.chatHistory, senderName(msg), msg.Content)],
                        FALSE, "none", FALSE, TRUE)
         ELSE NetResult(gs, FALSE, "none", FALSE, TRUE)
    ELSE CASE msg.Type = MsgTypeMove -> handleMove(gs, msg)
           [] msg.Type = MsgTypeChat -> handleChat(gs, msg)
           [] msg.Type = MsgTypeState -> handleState(gs, msg)
           [] msg.Type = MsgTypeAssign -> handleAssign(gs, msg)
           [] msg.Type = MsgTypeError -> NetResult(gs, TRUE, "none", FALSE, FALSE)
           [] msg.Type = MsgTypeNotify -> NetResult(gs, TRUE, "none", FALSE, FALSE)
           [] OTHER -> NetResult(gs, FALSE, "none", FALSE, FALSE)

(***************************************************************************)
(* handleUserInput, as a function of the game state and the input line.    *)
(* A line is what strings.HasPrefix / Split / Atoi make of it:             *)
(*   chat   the line starts with "/c " and text is what follows it;        *)
(*   parts  the line split at ",": for each part whether Atoi succeeds     *)
(*          (num) and the integer it then returns (val).                   *)
(* The result says what the handler left (gs), the messages it handed to   *)
(* `go gs.SendMessage` before its close of quitChan (early), the message   *)
(* it hands over at lines 550-552 (messageToSend), what                    *)
(* placePieceInternal returned, and whether it reached the close of        *)
(* quitChan at lines 527-531 (over).                                       *)
(***************************************************************************)
Num(n) == [num |-> TRUE, val |-> n]
NotNum == [num |-> FALSE, val |-> 0]
MoveLine(x, y) == [chat |-> FALSE, text |-> "", parts |-> <<Num(x), Num(y)>>]
ChatLine(t) == [chat |-> TRUE, text |-> t, parts |-> <<>>]
BadLine(parts) == [chat |-> FALSE, text |-> "", parts |-> parts]

InputResult(gs, valid, early, send, over) ==
    [gs |-> gs, valid |-> valid, early |-> early, messageToSend |-> send,
     over |-> over]

localMove_LoserInStateSync(gs, x, y) ==
    LET my == gs.playerID
        p == placePieceInternal(gs.board, x, y, my)
        move == Message(MsgTypeMove, my, x, y, "", 0, 0)
    IN IF ~(gs.currentPlayer = my /\ ~gs.gameOver)
       THEN InputResult(gs, "none", <<>>, NoMessage, FALSE)
       ELSE IF ~p.valid
       THEN InputResult(gs, "false", <<>>, NoMessage, FALSE)
       ELSE IF checkWinLogic(p.board, my)
       THEN InputResult([gs EXCEPT !.board = p.board, !.winner = my,
                                   !.gameOver = TRUE],
                        "true",
                        <<Message(MsgTypeState, 0, 0, 0, "", 0, 3 - my)>>,
                        move, TRUE)
       ELSE IF checkDrawLogic(p.board)
       THEN InputResult([gs EXCEPT !.board = p.board, !.winner = Draw,
                                   !.gameOver = TRUE],
                        "true",
                        <<Message(MsgTypeState, 0, 0, 0, "", 0, Draw)>>,
                        move, TRUE)
       ELSE InputResult([gs EXCEPT !.board = p.board,
                                   !.currentPlayer = 3 - my],
                        "true", <<>>, move, FALSE)

localMove_KeepTurn(gs, x, y) ==
    LET my == gs.playerID
        p == placePieceInternal(gs.board, x, y, my)
        move == Message(MsgTypeMove, my, x, y, "", 0, 0)
    IN IF ~(gs.currentPlayer = my /\ ~gs.gameOver)
       THEN InputResult(gs, "none", <<>>, NoMessage, FALSE)
       ELSE IF ~p.valid
       THEN InputResult(gs, "false", <<>>, NoMessage, FALSE)
       ELSE IF checkWinLogic(p.board, my)
       THEN InputResult([gs EXCEPT !.board = p.board, !.winner = my,
                                   !.gameOver = TRUE],
                        "true",
                        <<Message(MsgTypeState, 0, 0, 0, "", 0, my)>>,
                        move, TRUE)
       ELSE InputResult([gs EXCEPT !.board = p.board], "true", <<>>, move, FALSE)

\* lines 492-534: the move, under gs.mu, and what is sent for it
localMove(gs, x, y) ==
    LET my == gs.playerID
        p == placePieceInternal(gs.board, x, y, my)
        win == checkWinLogic(p.board, my)
        draw == checkDrawLogic(p.board)
        move == Message(MsgTypeMove, my, x, y, "", 0, 0)
    IN IF ~(gs.currentPlayer = my /\ ~gs.gameOver)
       THEN InputResult(gs, "none", <<>>, NoMessage, FALSE)
       ELSE IF ~p.valid
       THEN InputResult(gs, "false", <<>>, NoMessage, FALSE)
       ELSE IF win
       THEN InputResult([gs EXCEPT !.board = p.board, !.winner = my,
                                   !.gameOver = TRUE],
                        "true",
                        <<Message(MsgTypeState, 0, 0, 0, "", 0, my)>>,
                        move, TRUE)
       ELSE IF draw
       THEN InputResult([gs EXCEPT !.board = p.board, !.winner = Draw,
                                   !.gameOver = TRUE],
                        "true",
                        <<Message(MsgTypeState, 0, 0, 0, "", 0, Draw)>>,
                        move, TRUE)
       ELSE InputResult([gs EXCEPT !.board = p.board,
                                   !.currentPlayer = 3 - my],
                        "true", <<>>, move, FALSE)

handleUserInput_SkipTurnCheck(gs, line) ==
    LET my == gs.playerID
        isMove == ~line.chat /\ Len(line.parts) = 2
                  /\ line.parts[1].num /\ line.parts[2].num
    IN IF my = 0 \/ gs.gameOver \/ ~isMove
       THEN InputResult(gs, "none", <<>>, NoMessage, FALSE)
       ELSE LET x == line.parts[1].val
                y == line.parts[2].val
                p == placePieceInternal(gs.board, x, y, my)
            IN IF p.valid
               THEN InputResult([gs EXCEPT !.board = p.board,
                                           !.currentPlayer = 3 - my],
                                "true", <<>>,
                                Message(MsgTypeMove, my, x, y, "", 0, 0), FALSE)
               ELSE InputResult(gs, "false", <<>>, NoMessage, FALSE)

\* lines 441-559; every path of it calls SetNeedsRedraw except a "/c " line
\* with nothing after it
handleUserInput(gs, line) ==
    LET my == gs.playerID
        myTurn == my # 0 /\ gs.currentPlayer = my /\ ~gs.gameOver
    IN IF my = 0 \/ gs.gameOver \/ ~myTurn
       THEN InputResult(gs, "none", <<>>, NoMessage, FALSE)
       ELSE IF line.chat
       THEN IF line.text # ""
            THEN InputResult([gs EXCEPT !.chatHistory =
                                 AddChatMessage(gs.chatHistory, localName(my), line.text)],
                             "none", <<>>,
                             Message(MsgTypeChat, my, 0, 0, line.text, 0, 0),
                             FALSE)
            ELSE InputResult(gs, "none", <<>>, NoMessage, FALSE)
       ELSE IF Len(line.parts) = 2 /\ line.parts[1].num /\ line.parts[2].num
       THEN localMove(gs, line.parts[1].val, line.parts[2].val)
       ELSE InputResult(gs, "none", <<>>, NoMessage, FALSE)

inputRedraw(gs, line) ==
    ~(gs.playerID # 0 /\ ~gs.gameOver /\ gs.currentPlayer = gs.playerID
      /\ line.chat /\ line.text = "")

(***************************************************************************)
(* The locks.  gs.mu, gs.chatMu and gs.redrawMu are taken only by the main *)
(* goroutine: networkReceiver, inputReader and SendMessage contain no lock *)
(* call.  What the main goroutine does with them while it handles one      *)
(* event is therefore a sequence of operations, written here call by call. *)
(* sync.Mutex is not reentrant: a Lock of a mutex the goroutine holds      *)
(* never returns, and an Unlock of an unlocked mutex ends the process.     *)
(***************************************************************************)
Lock(m) == [op |-> "Lock", m |-> m]
Unlock(m) == [op |-> "Unlock", m |-> m]
\* gs.encoder.Encode(msg) on the connection, line 221
NetworkWrite == [op |-> "Write", m |-> "conn"]
\* the select of line 689
Select == [op |-> "Select", m |-> "select"]

\* lines 68-72
SetNeedsRedrawOps == <<Lock("redrawMu"), Unlock("redrawMu")>>
\* lines 75-81
CheckAndResetRedrawOps == <<Lock("redrawMu"), Unlock("redrawMu")>>
\* lines 95-137
DisplayBoardOps == <<Lock("mu"), Unlock("mu")>>
\* lines 186-194
AddChatMessageOps == <<Lock("chatMu"), Unlock("chatMu")>>
\* lines 197-211
DisplayChatOps == <<Lock("chatMu"), Unlock("chatMu")>>

handleNetworkMessageOps_WriteUnderMu(gs, msg) ==
    LET r == handleNetworkMessage(gs, msg)
    IN <<Lock("mu")>>
       \o (IF r.sendError THEN <<NetworkWrite>> ELSE <<>>)
       \o <<Unlock("mu")>>
       \o (IF r.redraw THEN SetNeedsRedrawOps ELSE <<>>)

\* lines 343-429
handleNetworkMessageOps(gs, msg) ==
    LET r == handleNetworkMessage(gs, msg)
        chat == msg.Type = MsgTypeChat
    IN <<Lock("mu")>>
       \o (IF gs.gameOver
           THEN <<Unlock("mu")>> \o (IF chat THEN AddChatMessageOps ELSE <<>>)
           ELSE IF r.sendError
           THEN <<Unlock("mu"), NetworkWrite, Lock("mu")>>
           ELSE IF chat /\ msg.Player # gs.playerID
           THEN <<Unlock("mu")>> \o AddChatMessageOps \o <<Lock("mu")>>
           ELSE <<>>)
       \o <<Unlock("mu")>>
       \o (IF r.redraw \/ (gs.gameOver /\ chat) THEN SetNeedsRedrawOps ELSE <<>>)

\* lines 442-558
handleUserInputOps(gs, line) ==
    <<Lock("mu"), Unlock("mu")>>
    \o (IF gs.playerID = 0 \/ gs.gameOver \/ gs.currentPlayer # gs.playerID
        THEN SetNeedsRedrawOps
        ELSE IF line.chat
        THEN IF line.text # ""
             THEN AddChatMessageOps \o SetNeedsRedrawOps
             ELSE <<>>
        ELSE IF Len(line.parts) = 2 /\ line.parts[1].num /\ line.parts[2].num
        THEN <<Lock("mu"), Unlock("mu")>> \o SetNeedsRedrawOps
        ELSE SetNeedsRedrawOps)

\* lines 645-689: from the top of the loop to its select; needs is what
\* CheckAndResetRedraw returns
mainLoopOps(gs, needs) ==
    CheckAndResetRedrawOps
    \o (IF needs
        THEN <<Lock("mu"), Unlock("mu")>> \o DisplayBoardOps \o DisplayChatOps
             \o (IF gs.gameOver THEN <<Lock("mu"), Unlock("mu")>> ELSE <<>>)
        ELSE <<>>)
    \o <<Select>>

\* What a run of ops does, starting with the locks of held: the largest
\* number of locks held at once, the locks held at a network write and in
\* the select, the number of writes and selects, and the fault that ended
\* the run early, if any.
NoLocks ==
    [maxHeld |-> 0, atWrite |-> {}, atSelect |-> {}, writes |-> 0,
     selects |-> 0, fault |-> "none"]

RECURSIVE RunLocks(_, _, _)
RunLocks(ops, held, log) ==
    IF ops = <<>> THEN log
    ELSE LET o == Head(ops)
         IN CASE o.op = "Lock" ->
                   IF o.m \in held THEN [log EXCEPT !.fault = "deadlock"]
                   ELSE RunLocks(Tail(ops), held \cup {o.m},
                           [log EXCEPT !.maxHeld =
                              IF Cardinality(held) + 1 > @
                              THEN Cardinality(held) + 1 ELSE @])
              [] o.op = "Unlock" ->
                   IF o.m \notin held
                   THEN [log EXCEPT !.fault = "unlock of unlocked mutex"]
                   ELSE RunLocks(Tail(ops), held \ {o.m}, log)
              [] o.op = "Write" ->
                   RunLocks(Tail(ops), held,
                            [log EXCEPT !.atWrite = @ \cup held,
                                        !.writes = @ + 1])
              [] OTHER ->
                   RunLocks(Tail(ops), held,
                            [log EXCEPT !.atSelect = @ \cup held,
                                        !.selects = @ + 1])

(***************************************************************************)
(* The processes                                                           *)
(***************************************************************************)
Side == {"server", "client"}
Peer(s) == IF s = "server" THEN "client" ELSE "server"

\* loop[s]: "top" before CheckAndResetRedraw (line 645), "select" in the
\* select of line 689, "closing" between the quitChan check and the close of
\* a handler, "exited" after the loop (the 2 s sleep of line 716), "gone"
\* after main returned (the deferred conn.Close ran), "panic" after a close
\* of the closed quitChan, "fatal" after an unlock of the unlocked gs.mu.
\* "env" stands for a peer that is not modelled (SpecSide).
Dead(s) == loop[s] \in {"gone", "panic", "fatal"}

GS(s) ==
    [board |-> board[s], currentPlayer |-> currentPlayer[s],
     winner |-> winner[s], gameOver |-> gameOver[s],
     playerID |-> playerID[s], chatHistory |-> chatHistory[s]]

\* ev: the event the loop of `side` handled in the last step, the state it
\* found (pre, preRedraw), what the handler reported, and what the main
\* goroutine did with the locks from the handler's first line to the next
\* select (locks).
NoEvent == [kind |-> "none"]
NetEvent(s, msg, r) ==
    [kind |-> "net", side |-> s, msg |-> msg, pre |-> GS(s),
     preRedraw |-> needsRedraw[s], valid |-> r.valid,
     sendError |-> r.sendError, fatal |-> r.fatal,
     locks |-> RunLocks(handleNetworkMessageOps(GS(s), msg)
                        \o mainLoopOps(r.gs, r.redraw \/ needsRedraw[s]),
                        {}, NoLocks)]
InputEvent(s, line, r) ==
    [kind |-> "input", side |-> s, line |-> line, pre |-> GS(s),
     preRedraw |-> needsRedraw[s], valid |-> r.valid,
     early |-> r.early, messageToSend |-> r.messageToSend,
     locks |-> RunLocks(handleUserInputOps(GS(s), line)
                        \o mainLoopOps(r.gs, inputRedraw(GS(s), line)
                                              \/ needsRedraw[s]),
                        {}, NoLocks)]

RecvAt(pc) == [pc |-> pc, msg |-> NoMessage]

\* The handler left game state gs and called SetNeedsRedraw iff redraw.
SetGame(s, gs, redraw) ==
    /\ board' = [board EXCEPT ![s] = gs.board]
    /\ currentPlayer' = [currentPlayer EXCEPT ![s] = gs.currentPlayer]
    /\ winner' = [winner EXCEPT ![s] = gs.winner]
    /\ gameOver' = [gameOver EXCEPT ![s] = gs.gameOver]
    /\ playerID' = [playerID EXCEPT ![s] = gs.playerID]
    /\ chatHistory' = [chatHistory EXCEPT ![s] = gs.chatHistory]
    /\ needsRedraw' = [needsRedraw EXCEPT ![s] = redraw \/ @]

\* The process of s ends (main returned, or the runtime ended it): its
\* goroutines are gone and its end of the connection is closed.  q is the
\* number of closes of quitChan it executed.
StopProc(s, why, q) ==
    /\ loop' = [loop EXCEPT ![s] = why]
    /\ quitChan' = [quitChan EXCEPT ![s] = q]
    /\ messageToSend' = [messageToSend EXCEPT ![s] = NoMessage]
    /\ recv' = [recv EXCEPT ![s] =
                  RecvAt(IF recv[s].pc \in {"closing", "failed"}
                         THEN "failed" ELSE "done")]
    /\ inp' = [inp EXCEPT ![s] = "done"]
    /\ senders' = [senders EXCEPT ![s] = EmptyBag]
    /\ inputChan' = [inputChan EXCEPT ![s] = 0]
    /\ networkMsgChan' = [networkMsgChan EXCEPT ![s] = <<>>]
    /\ wire' = [wire EXCEPT ![s] = <<>>]

AddAll(bag, msgs) ==
    LET RECURSIVE Add(_, _)
        Add(b, i) == IF i > Len(msgs) THEN b
                     ELSE Add(b (+) SetToBag({msgs[i]}), i + 1)
    IN Add(bag, 1)

Started(m) == IF m = NoMessage THEN <<>> ELSE <<m>>

(***************************************************************************)
(* The event loop (main, lines 642-711)                                    *)
(***************************************************************************)
\* line 645: CheckAndResetRedraw, and the rendering it asks for
LoopRedraw(s) ==
    /\ loop[s] = "top"
    /\ needsRedraw' = [needsRedraw EXCEPT ![s] = FALSE]
    /\ loop' = [loop EXCEPT ![s] = "select"]
    /\ ev' = NoEvent
    /\ UNCHANGED <<board, currentPlayer, winner, gameOver, playerID, chatHistory,
                   inputChan, networkMsgChan, quitChan, messageToSend, recv, inp,
                   senders, wire, callVars>>

\* case <-ticker.C: continue.  The iteration it starts finds needsRedraw
\* false (only the loop sets the flag, and it cleared it before the select)
\* and is back in the select with nothing changed.
LoopTick(s) ==
    /\ loop[s] = "select"
    /\ ~needsRedraw[s]
    /\ UNCHANGED vars

LoopQuit_Ignore(s) ==
    /\ loop[s] = "select"
    /\ quitChan[s] >= 1
    /\ loop' = [loop EXCEPT ![s] = "top"]
    /\ ev' = NoEvent
    /\ UNCHANGED <<gameVars, inputChan, networkMsgChan, quitChan, messageToSend,
                   recv, inp, senders, wire, callVars>>

\* case <-gs.quitChan: running = false
LoopQuit(s) ==
    /\ loop[s] = "select"
    /\ quitChan[s] >= 1
    /\ loop' = [loop EXCEPT ![s] = "exited"]
    /\ ev' = NoEvent
    /\ UNCHANGED <<gameVars, inputChan, networkMsgChan, quitChan, messageToSend,
                   recv, inp, senders, wire, callVars>>

\* main returns after the sleep of line 716: the deferred conn.Close() runs
\* and the process ends.
MainReturn(s) ==
    /\ loop[s] = "exited"
    /\ StopProc(s, "gone", quitChan[s])
    /\ ev' = NoEvent
    /\ UNCHANGED <<gameVars, callVars>>

\* handleNetworkMessage(msg) from the select; rest is what networkMsgChan
\* holds afterwards.  The Error reply of line 377 is written by the loop
\* itself: on a connection whose peer is gone the write either still
\* succeeds or fails, and a failed write closes quitChan (line 225).
NetStep(s, msg, rest) ==
    LET r == handleNetworkMessage(GS(s), msg)
        peer == Peer(s)
    IN /\ ev' = NetEvent(s, msg, r)
       /\ SetGame(s, r.gs, r.redraw)
       /\ UNCHANGED callVars
       /\ IF r.fatal
          THEN StopProc(s, "fatal", quitChan[s])
          ELSE IF r.sendError
          THEN \E fail \in (IF Dead(peer) THEN BOOLEAN ELSE {FALSE}) :
                 IF fail /\ quitChan[s] >= 1
                 THEN StopProc(s, "panic", quitChan[s] + 1)
                 ELSE /\ ~Dead(peer) => Len(wire[peer]) < MaxWire
                      /\ wire' = IF Dead(peer) THEN wire
                                 ELSE [wire EXCEPT ![peer] = Append(@,
                                        Encode(Message(MsgTypeError, 0, 0, 0,
                                               "Received invalid move", 0, 0)))]
                      /\ quitChan' = IF fail THEN [quitChan EXCEPT ![s] = 1]
                                     ELSE quitChan
                      /\ loop' = [loop EXCEPT ![s] = "top"]
                      /\ networkMsgChan' = [networkMsgChan EXCEPT ![s] = rest]
                      /\ UNCHANGED <<inputChan, messageToSend, recv, inp, senders>>
          ELSE /\ loop' = [loop EXCEPT ![s] =
                             IF r.gs.gameOver /\ quitChan[s] = 0
                             THEN "closing" ELSE "top"]
               /\ networkMsgChan' = [networkMsgChan EXCEPT ![s] = rest]
               /\ UNCHANGED <<inputChan, quitChan, messageToSend, recv, inp,
                              senders, wire>>

\* handleUserInput(line) from the select; queued is what inputChan holds
\* afterwards.
InputStep(s, line, queued) ==
    LET r == handleUserInput(GS(s), line)
        closes == r.over /\ quitChan[s] = 0
    IN /\ ev' = InputEvent(s, line, r)
       /\ SetGame(s, r.gs, inputRedraw(GS(s), line))
       /\ loop' = [loop EXCEPT ![s] = IF closes THEN "closing" ELSE "top"]
       /\ messageToSend' = [messageToSend EXCEPT ![s] =
                              IF closes THEN r.messageToSend ELSE NoMessage]
       /\ senders' = [senders EXCEPT ![s] =
                        AddAll(@, IF closes THEN r.early
                                  ELSE r.early \o Started(r.messageToSend))]
       /\ inputChan' = [inputChan EXCEPT ![s] = queued]
       /\ UNCHANGED <<networkMsgChan, quitChan, recv, inp, wire, callVars>>

\* close(gs.quitChan) of a handler (lines 435, 530) after its check found the
\* channel open, then lines 550-552 of handleUserInput.
LoopClose(s) ==
    /\ loop[s] = "closing"
    /\ ev' = NoEvent
    /\ UNCHANGED <<gameVars, callVars>>
    /\ IF quitChan[s] >= 1
       THEN StopProc(s, "panic", quitChan[s] + 1)
       ELSE /\ quitChan' = [quitChan EXCEPT ![s] = 1]
            /\ loop' = [loop EXCEPT ![s] = "top"]
            /\ senders' = [senders EXCEPT ![s] = AddAll(@, Started(messageToSend[s]))]
            /\ messageToSend' = [messageToSend EXCEPT ![s] = NoMessage]
            /\ UNCHANGED <<inputChan, networkMsgChan, recv, inp, wire>>

\* case msg := <-gs.networkMsgChan
LoopNet(s) ==
    /\ loop[s] = "select"
    /\ networkMsgChan[s] # <<>>
    /\ NetStep(s, Head(networkMsgChan[s]), Tail(networkMsgChan[s]))

\* case input := <-gs.inputChan, input == "": SetNeedsRedraw only
LoopEmptyInput(s) ==
    /\ loop[s] = "select"
    /\ inputChan[s] > 0
    /\ inputChan' = [inputChan EXCEPT ![s] = @ - 1]
    /\ needsRedraw' = [needsRedraw EXCEPT ![s] = TRUE]
    /\ loop' = [loop EXCEPT ![s] = "top"]
    /\ ev' = NoEvent
    /\ UNCHANGED <<board, currentPlayer, winner, gameOver, playerID, chatHistory,
                   networkMsgChan, quitChan, messageToSend, recv, inp, senders,
                   wire, callVars>>

(***************************************************************************)
(* networkReceiver (lines 231-284).  Its deferred close finds quitChan     *)
(* closed on every return of the loop, so it is left out.  recv[s].pc is   *)
(* "done" once it returned because quitChan was closed and "failed" once   *)
(* Decode returned an error; "failed" is kept when the process ends.       *)
(***************************************************************************)
\* lines 248-254
RecvTop(s) ==
    /\ recv[s].pc = "top"
    /\ recv' = [recv EXCEPT ![s] = RecvAt(IF quitChan[s] >= 1 THEN "done" ELSE "decode")]
    /\ ev' = NoEvent
    /\ UNCHANGED <<gameVars, inputChan, networkMsgChan, quitChan, loop,
                   messageToSend, inp, senders, wire, callVars>>

\* lines 256-272: Decode returns the next message, or an error once the peer
\* has closed the connection and nothing is left to read.
RecvDecode(s) ==
    /\ recv[s].pc = "decode"
    /\ ev' = NoEvent
    /\ IF wire[s] # <<>>
       THEN /\ recv' = [recv EXCEPT ![s] = [pc |-> "publish", msg |-> Decode(Head(wire[s]))]]
            /\ wire' = [wire EXCEPT ![s] = Tail(@)]
       ELSE /\ Dead(Peer(s))
            /\ recv' = [recv EXCEPT ![s] =
                          RecvAt(IF quitChan[s] >= 1 THEN "failed" ELSE "closing")]
            /\ wire' = wire
    /\ UNCHANGED <<gameVars, inputChan, networkMsgChan, quitChan, loop,
                   messageToSend, inp, senders, callVars>>

\* lines 276-282: the select takes either case that is ready
RecvPublish(s) ==
    /\ recv[s].pc = "publish"
    /\ ev' = NoEvent
    /\ \E quit \in BOOLEAN :
         IF quit
         THEN /\ quitChan[s] >= 1
              /\ recv' = [recv EXCEPT ![s] = RecvAt("done")]
              /\ networkMsgChan' = networkMsgChan
         ELSE /\ Len(networkMsgChan[s]) < NetworkMsgChanCap
              /\ networkMsgChan' = [networkMsgChan EXCEPT ![s] = Append(@, recv[s].msg)]
              /\ recv' = [recv EXCEPT ![s] = RecvAt("top")]
    /\ UNCHANGED <<gameVars, inputChan, quitChan, loop, messageToSend, inp,
                   senders, wire, callVars>>

\* line 269
RecvClose(s) ==
    /\ recv[s].pc = "closing"
    /\ ev' = NoEvent
    /\ UNCHANGED <<gameVars, callVars>>
    /\ IF quitChan[s] >= 1
       THEN StopProc(s, "panic", quitChan[s] + 1)
       ELSE /\ quitChan' = [quitChan EXCEPT ![s] = 1]
            /\ recv' = [recv EXCEPT ![s] = RecvAt("failed")]
            /\ UNCHANGED <<inputChan, networkMsgChan, loop, messageToSend, inp,
                           senders, wire>>

(***************************************************************************)
(* inputReader (lines 287-333).  What a queued line says is read by nobody *)
(* before handleUserInput, so it is drawn when the loop takes the line.    *)
(***************************************************************************)
\* lines 299-305
InputTop(s) ==
    /\ inp[s] = "top"
    /\ inp' = [inp EXCEPT ![s] = IF quitChan[s] >= 1 THEN "done" ELSE "read"]
    /\ ev' = NoEvent
    /\ UNCHANGED <<gameVars, inputChan, networkMsgChan, quitChan, loop,
                   messageToSend, recv, senders, wire, callVars>>

\* lines 308-322: ReadString returns a line, or io.EOF
InputRead(s) ==
    /\ inp[s] = "read"
    /\ ev' = NoEvent
    /\ \E eof \in BOOLEAN :
         inp' = [inp EXCEPT ![s] =
                   IF ~eof THEN "publish"
                   ELSE IF quitChan[s] >= 1 THEN "done" ELSE "closing"]
    /\ UNCHANGED <<gameVars, inputChan, networkMsgChan, quitChan, loop,
                   messageToSend, recv, senders, wire, callVars>>

\* lines 325-331
InputPublish(s) ==
    /\ inp[s] = "publish"
    /\ ev' = NoEvent
    /\ \E quit \in BOOLEAN :
         IF quit
         THEN /\ quitChan[s] >= 1
              /\ inp' = [inp EXCEPT ![s] = "done"]
              /\ inputChan' = inputChan
         ELSE /\ inputChan[s] < InputChanCap
              /\ inputChan' = [inputChan EXCEPT ![s] = @ + 1]
              /\ inp' = [inp EXCEPT ![s] = "top"]
    /\ UNCHANGED <<gameVars, networkMsgChan, quitChan, loop, messageToSend, recv,
                   senders, wire, callVars>>

\* line 319
InputClose(s) ==
    /\ inp[s] = "closing"
    /\ ev' = NoEvent
    /\ UNCHANGED <<gameVars, callVars>>
    /\ IF quitChan[s] >= 1
       THEN StopProc(s, "panic", quitChan[s] + 1)
       ELSE /\ quitChan' = [quitChan EXCEPT ![s] = 1]
            /\ inp' = [inp EXCEPT ![s] = "done"]
            /\ UNCHANGED <<inputChan, networkMsgChan, loop, messageToSend, recv,
                           senders, wire>>

(***************************************************************************)
(* SendMessage in a goroutine of its own (lines 214-228): one of the       *)
(* started senders writes its message.  Towards a peer that is gone the    *)
(* write either still succeeds (the message is lost) or fails, and a       *)
(* failed write closes quitChan without a check (line 225).                *)
(***************************************************************************)
SenderWrite(s) ==
    /\ ~Dead(s)
    /\ loop[s] # "env"
    /\ ev' = NoEvent
    /\ UNCHANGED <<gameVars, callVars>>
    /\ \E m \in BagToSet(senders[s]) :
       \E fail \in (IF Dead(Peer(s)) THEN BOOLEAN ELSE {FALSE}) :
         IF fail /\ quitChan[s] >= 1
         THEN StopProc(s, "panic", quitChan[s] + 1)
         ELSE /\ ~Dead(Peer(s)) => Len(wire[Peer(s)]) < MaxWire
              /\ senders' = [senders EXCEPT ![s] = @ (-) SetToBag({m})]
              /\ wire' = IF Dead(Peer(s)) THEN wire
                         ELSE [wire EXCEPT ![Peer(s)] = Append(@, Encode(m))]
              /\ quitChan' = IF fail THEN [quitChan EXCEPT ![s] = 1] ELSE quitChan
              /\ UNCHANGED <<inputChan, networkMsgChan, loop, messageToSend,
                             recv, inp>>

(***************************************************************************)
(* Spec: the two-peer system                                               *)
(***************************************************************************)
\* The variables of the specifications of single functions, where unused.
InitWinIdle ==
    /\ callBoard = NewBoard(0)
    /\ callEdited = FALSE
    /\ callRet = [player |-> 0, result |-> FALSE]

InitChatIdle == appended = <<>>

InitRedrawIdle ==
    /\ redrawMu = "none"
    /\ redrawTask = [t \in {} |-> 0]
    /\ requested = 0

InitT3Idle == game = [board |-> <<>>]

InitCall == InitWinIdle /\ InitChatIdle /\ InitRedrawIdle /\ InitT3Idle

\* main, lines 568-635: the state when the event loops start.  The
\* listening side has made itself Player1 and started the sender of Assign.
Init ==
    /\ board = [s \in Side |-> NewBoard(BoardSize)]
    /\ currentPlayer = [s \in Side |-> IF s = "server" THEN Player1 ELSE 0]
    /\ playerID = [s \in Side |-> IF s = "server" THEN Player1 ELSE 0]
    /\ winner = [s \in Side |-> 0]
    /\ gameOver = [s \in Side |-> FALSE]
    /\ chatHistory = [s \in Side |-> <<>>]
    /\ needsRedraw = [s \in Side |-> TRUE]
    /\ inputChan = [s \in Side |-> 0]
    /\ networkMsgChan = [s \in Side |-> <<>>]
    /\ quitChan = [s \in Side |-> 0]
    /\ loop = [s \in Side |-> "top"]
    /\ messageToSend = [s \in Side |-> NoMessage]
    /\ recv = [s \in Side |-> RecvAt("top")]
    /\ inp = [s \in Side |-> "top"]
    /\ senders = [s \in Side |->
                    IF s = "server"
                    THEN SetToBag({Message(MsgTypeAssign, Player2, 0, 0, "", 0, 0)})
                    ELSE EmptyBag]
    /\ wire = [s \in Side |-> <<>>]
    /\ ev = NoEvent
    /\ InitCall

\* The lines typed in Spec: each player fills a row of its own from the
\* left (the listening side row 7, five cells; the connecting side row 8,
\* four cells), or names cell (7,0) again.
OwnRow(s) ==
    IF s = "server"
    THEN <<<<7, 0>>, <<7, 1>>, <<7, 2>>, <<7, 3>>, <<7, 4>>>>
    ELSE <<<<8, 0>>, <<8, 1>>, <<8, 2>>, <<8, 3>>>>

NextOwn(s) ==
    LET row == OwnRow(s)
        free == {k \in 1..Len(row) : board[s][row[k][1]][row[k][2]] = Empty}
    IN IF free = {} THEN {}
       ELSE {row[CHOOSE k \in free : \A l \in free : k <= l]}

SpecLines(s) ==
    {MoveLine(c[1], c[2]) : c \in NextOwn(s) \cup {<<7, 0>>}}

\* case input := <-gs.inputChan, input != ""
LoopInput(s) ==
    /\ loop[s] = "select"
    /\ inputChan[s] > 0
    /\ \E line \in SpecLines(s) : InputStep(s, line, inputChan[s] - 1)

Next ==
    \E s \in Side :
        \/ LoopRedraw(s)
        \/ LoopTick(s)
        \/ LoopQuit(s)
        \/ LoopInput(s)
        \/ LoopEmptyInput(s)
        \/ LoopNet(s)
        \/ LoopClose(s)
        \/ MainReturn(s)
        \/ RecvTop(s)
        \/ RecvDecode(s)
        \/ RecvPublish(s)
        \/ RecvClose(s)
        \/ InputTop(s)
        \/ InputRead(s)
        \/ InputPublish(s)
        \/ InputClose(s)
        \/ SenderWrite(s)

Spec == Init /\ [][Next]_vars

(***************************************************************************)
(* SpecSide: one process and an arbitrary peer.  The process starts as     *)
(* constructed, or in the middle of a game on a board that alternate play  *)
(* reaches; its loop takes any message of the schema and any line.  The    *)
(* handlers read neither the started senders nor the connection, so the    *)
(* peer and the user wait for both to drain before the next event.         *)
(***************************************************************************)
Cells == (0..(BoardSize - 1)) \X (0..(BoardSize - 1))
Count(b, p) == Cardinality({c \in Cells : b[c[1]][c[2]] = p})
ToMove(b) == IF Count(b, Player1) = Count(b, Player2) THEN Player1 ELSE Player2

\* A full board without five in a row: 113 stones of Player1, 112 of Player2.
FullPattern(i, j) == IF (i + 2 * j) % 4 < 2 THEN Player1 ELSE Player2

\* Four stones each in rows 7 and 8: (7,4) gives Player1 five, (8,4) Player2.
FourBoard ==
    [i \in 0..(BoardSize - 1) |-> [j \in 0..(BoardSize - 1) |->
        IF i = 7 /\ j < 4 THEN Player1
        ELSE IF i = 8 /\ j < 4 THEN Player2 ELSE Empty]]

\* One cell left, Player1 to move: (0,0) fills the board without a five.
DrawBoard ==
    [i \in 0..(BoardSize - 1) |-> [j \in 0..(BoardSize - 1) |->
        IF <<i, j>> = <<0, 0>> THEN Empty ELSE FullPattern(i, j)]]

\* One cell left, Player1 to move: (0,0) fills the board and completes
\* (0,0)..(0,4).
WinBoard ==
    [i \in 0..(BoardSize - 1) |-> [j \in 0..(BoardSize - 1) |->
        IF <<i, j>> = <<0, 0>> THEN Empty
        ELSE IF i = 0 /\ j < 5 THEN Player1
        ELSE IF <<i, j>> \in {<<5, 0>>, <<5, 2>>} THEN Player2
        ELSE FullPattern(i, j)]]

SideCells ==
    {<<7, 4>>, <<8, 4>>, <<0, 0>>,
     <<15, 0>>, <<0, 15>>, <<-1, 0>>, <<0, -1>>}

SideMsgs ==
    {Message(MsgTypeMove, p, c[1], c[2], "", 0, 0) :
        p \in {0, Player1, Player2}, c \in SideCells}
    \cup {Message(MsgTypeChat, p, 0, 0, "hi", 0, 0) : p \in {Player1, Player2}}
    \cup {Message(MsgTypeState, 0, 0, 0, "", t, w) : t \in 0..2, w \in 0..3}
    \cup {Message(MsgTypeState, 0, 0, 0, "", 3, 0),
          Message(MsgTypeMove, 3, 7, 4, "", 0, 0)}
    \cup {Message(MsgTypeAssign, p, 0, 0, "", 0, 0) : p \in {Player1, Player2}}
    \cup {Message(MsgTypeError, 0, 0, 0, "Received invalid move", 0, 0),
          Message(MsgTypeNotify, 0, 0, 0, "note", 0, 0),
          Message("ping", 0, 0, 0, "", 0, 0)}

SideLines ==
    {MoveLine(c[1], c[2]) : c \in SideCells}
    \cup {ChatLine("hi"), BadLine(<<Num(7)>>), BadLine(<<Num(7), NotNum>>)}

\* The game states a process of side s starts SpecSide in.
SideStarts(s) ==
    {[board |-> NewBoard(BoardSize),
      id |-> IF s = "server" THEN Player1 ELSE 0,
      turn |-> IF s = "server" THEN Player1 ELSE 0,
      fresh |-> TRUE]}
    \cup {[board |-> b,
           id |-> IF s = "server" THEN Player1 ELSE Player2,
           turn |-> ToMove(b),
           fresh |-> FALSE] : b \in {FourBoard, DrawBoard, WinBoard}}

InitSide ==
    \E s \in Side : \E st \in SideStarts(s) :
        /\ board = [t \in Side |-> IF t = s THEN st.board ELSE NewBoard(BoardSize)]
        /\ currentPlayer = [t \in Side |-> IF t = s THEN st.turn ELSE 0]
        /\ playerID = [t \in Side |-> IF t = s THEN st.id ELSE 0]
        /\ winner = [t \in Side |-> 0]
        /\ gameOver = [t \in Side |-> FALSE]
        /\ chatHistory = [t \in Side |-> <<>>]
        /\ needsRedraw = [t \in Side |-> t = s /\ st.fresh]
        /\ inputChan = [t \in Side |-> 0]
        /\ networkMsgChan = [t \in Side |-> <<>>]
        /\ quitChan = [t \in Side |-> 0]
        /\ loop = [t \in Side |-> IF t # s THEN "env"
                                  ELSE IF st.fresh THEN "top" ELSE "select"]
        /\ messageToSend = [t \in Side |-> NoMessage]
        /\ recv = [t \in Side |-> RecvAt(IF t = s THEN "decode" ELSE "done")]
        /\ inp = [t \in Side |-> IF t = s THEN "read" ELSE "done"]
        /\ senders = [t \in Side |->
                        IF t = s /\ s = "server" /\ st.fresh
                        THEN SetToBag({Message(MsgTypeAssign, Player2, 0, 0, "", 0, 0)})
                        ELSE EmptyBag]
        /\ wire = [t \in Side |-> <<>>]
        /\ ev = NoEvent
        /\ InitCall

Drained(s) == senders[s] = EmptyBag /\ wire[Peer(s)] = <<>>

\* A chat entry is added only while the log is shorter than MaxChatLog.
ChatRoom(s) == Len(chatHistory[s]) < MaxChatLog

\* The receiver has published msg and the loop takes it from the select.
SideNet(s) ==
    /\ loop[s] = "select"
    /\ Drained(s)
    /\ \E msg \in SideMsgs :
         /\ msg.Type = MsgTypeChat => ChatRoom(s)
         /\ NetStep(s, msg, networkMsgChan[s])

\* The input reader has published a line and the loop takes it.
SideInput(s) ==
    /\ loop[s] = "select"
    /\ Drained(s)
    /\ \E line \in SideLines :
         /\ line.chat => ChatRoom(s)
         /\ InputStep(s, line, inputChan[s])

\* The peer reads what was written to it.
EnvRead(s) ==
    /\ loop[s] = "env"
    /\ wire[s] # <<>>
    /\ wire' = [wire EXCEPT ![s] = Tail(@)]
    /\ ev' = NoEvent
    /\ UNCHANGED <<gameVars, inputChan, networkMsgChan, quitChan, loop,
                   messageToSend, recv, inp, senders, callVars>>

NextSide ==
    \E s \in Side :
        \/ LoopRedraw(s)
        \/ LoopTick(s)
        \/ LoopQuit(s)
        \/ SideInput(s)
        \/ SideNet(s)
        \/ LoopClose(s)
        \/ MainReturn(s)
        \/ SenderWrite(s)
        \/ EnvRead(s)

SpecSide == InitSide /\ [][NextSide]_vars

(***************************************************************************)
(* SpecFair: one process with all its goroutines, late in a game, against  *)
(* a peer that does what a peer process can do at that point (send its     *)
(* move and the StateSync after it, read, close the connection), under the *)
(* scheduling the Go runtime gives.  A goroutine that can run does run     *)
(* (weak fairness of every step that waits for nothing outside the         *)
(* process: the blocking reads ReadString and Decode, which wait for the   *)
(* user and the peer, get none, and neither does the peer), and a select   *)
(* that is entered again and again with its quitChan case ready takes that *)
(* case (strong fairness: select chooses among the ready cases at random). *)
(***************************************************************************)
\* Both players have filled the first four cells of their rows (OwnRow).
LateBoard ==
    [x \in 0..(BoardSize - 1) |->
       [y \in 0..(BoardSize - 1) |->
          IF x = 7 /\ y < 4 THEN Player1
          ELSE IF x = 8 /\ y < 4 THEN Player2
          ELSE Empty]]

\* The process of side s is at the top of its loop with a redraw pending,
\* its readers are in their blocking reads, the Assign has been handled,
\* nothing is queued or in flight, and it is Player1's turn.
InitFair ==
    \E s \in Side :
        /\ board = [t \in Side |-> IF t = s THEN LateBoard ELSE NewBoard(BoardSize)]
        /\ currentPlayer = [t \in Side |-> IF t = s THEN Player1 ELSE 0]
        /\ playerID = [t \in Side |->
                         IF t # s THEN 0
                         ELSE IF s = "server" THEN Player1 ELSE Player2]
        /\ winner = [t \in Side |-> 0]
        /\ gameOver = [t \in Side |-> FALSE]
        /\ chatHistory = [t \in Side |-> <<>>]
        /\ needsRedraw = [t \in Side |-> t = s]
        /\ inputChan = [t \in Side |-> 0]
        /\ networkMsgChan = [t \in Side |-> <<>>]
        /\ quitChan = [t \in Side |-> 0]
        /\ loop = [t \in Side |-> IF t = s THEN "top" ELSE "env"]
        /\ messageToSend = [t \in Side |-> NoMessage]
        /\ recv = [t \in Side |-> RecvAt(IF t = s THEN "decode" ELSE "done")]
        /\ inp = [t \in Side |-> IF t = s THEN "read" ELSE "done"]
        /\ senders = [t \in Side |-> EmptyBag]
        /\ wire = [t \in Side |-> <<>>]
        /\ ev = NoEvent
        /\ InitCall

\* What the peer t sends from LateBoard: Player1 its fifth stone and the
\* StateSync that follows it, Player2 its fifth stone.
PeerMsgs(t) ==
    IF t = "server"
    THEN {Message(MsgTypeMove, Player1, 7, 4, "", 0, 0),
          Message(MsgTypeState, 0, 0, 0, "", 0, Player1)}
    ELSE {Message(MsgTypeMove, Player2, 8, 4, "", 0, 0)}

\* The peer t writes a message once the process has taken the previous one.
EnvWrite(t) ==
    /\ loop[t] = "env"
    /\ ~Dead(Peer(t))
    /\ wire[Peer(t)] = <<>>
    /\ networkMsgChan[Peer(t)] = <<>>
    /\ recv[Peer(t)].pc = "decode"
    /\ \E m \in PeerMsgs(t) :
         wire' = [wire EXCEPT ![Peer(t)] = Append(@, Encode(m))]
    /\ ev' = NoEvent
    /\ UNCHANGED <<gameVars, inputChan, networkMsgChan, quitChan, loop,
                   messageToSend, recv, inp, senders, callVars>>

\* The peer t ends and its end of the connection is closed.
EnvGone(t) ==
    /\ loop[t] = "env"
    /\ StopProc(t, "gone", quitChan[t])
    /\ ev' = NoEvent
    /\ UNCHANGED <<gameVars, callVars>>

NextFair ==
    \E s \in Side :
        \/ LoopRedraw(s)
        \/ LoopTick(s)
        \/ LoopQuit(s)
        \/ LoopInput(s)
        \/ LoopEmptyInput(s)
        \/ LoopNet(s)
        \/ LoopClose(s)
        \/ MainReturn(s)
        \/ RecvTop(s)
        \/ RecvDecode(s)
        \/ RecvPublish(s)
        \/ RecvClose(s)
        \/ InputTop(s)
        \/ InputRead(s)
        \/ InputPublish(s)
        \/ InputClose(s)
        \/ SenderWrite(s)
        \/ EnvRead(s)
        \/ EnvWrite(s)
        \/ EnvGone(s)

Fairness ==
    \A s \in Side :
        /\ WF_vars(LoopRedraw(s))
        /\ SF_vars(LoopQuit(s))
        /\ WF_vars(LoopClose(s))
        /\ WF_vars(MainReturn(s))
        /\ WF_vars(RecvTop(s))
        /\ WF_vars(RecvPublish(s))
        /\ WF_vars(RecvClose(s))
        /\ WF_vars(InputTop(s))
        /\ WF_vars(InputPublish(s))
        /\ WF_vars(InputClose(s))

SpecFair == InitFair /\ [][NextFair]_vars /\ Fairness

(***************************************************************************)
(* SpecWin: checkWinLogic on drawn boards                                  *)
(***************************************************************************)
Directions == {<<0, 1>>, <<1, 0>>, <<1, 1>>, <<1, -1>>}
NoCall == [player |-> 0, result |-> FALSE]

\* A board of side n holding one run of len stones of player p from (i, j) in
\* direction d; the part of the run that leaves the board is cut off.
RunBoard(n, i, j, d, len, p) ==
    [x \in 0..(n - 1) |-> [y \in 0..(n - 1) |->
        IF \E k \in 0..(len - 1) : x = i + k * d[1] /\ y = j + k * d[2]
        THEN p ELSE Empty]]

\* No process: the variables of the processes, where unused.
IdleBoard ==
    /\ board = [s \in {} |-> 0]
    /\ currentPlayer = [s \in {} |-> 0]
    /\ winner = [s \in {} |-> 0]
    /\ gameOver = [s \in {} |-> 0]
    /\ playerID = [s \in {} |-> 0]

IdleProc ==
    /\ inputChan = [s \in {} |-> 0]
    /\ networkMsgChan = [s \in {} |-> 0]
    /\ quitChan = [s \in {} |-> 0]
    /\ loop = [s \in {} |-> 0]
    /\ messageToSend = [s \in {} |-> 0]
    /\ recv = [s \in {} |-> 0]
    /\ inp = [s \in {} |-> 0]
    /\ senders = [s \in {} |-> 0]
    /\ wire = [s \in {} |-> 0]

InitGameIdle ==
    /\ board = [s \in {} |-> 0]
    /\ currentPlayer = [s \in {} |-> 0]
    /\ winner = [s \in {} |-> 0]
    /\ gameOver = [s \in {} |-> 0]
    /\ playerID = [s \in {} |-> 0]
    /\ chatHistory = [s \in {} |-> 0]
    /\ needsRedraw = [s \in {} |-> 0]
    /\ inputChan = [s \in {} |-> 0]
    /\ networkMsgChan = [s \in {} |-> 0]
    /\ quitChan = [s \in {} |-> 0]
    /\ loop = [s \in {} |-> 0]
    /\ messageToSend = [s \in {} |-> 0]
    /\ recv = [s \in {} |-> 0]
    /\ inp = [s \in {} |-> 0]
    /\ senders = [s \in {} |-> 0]
    /\ wire = [s \in {} |-> 0]
    /\ ev = [kind |-> "none"]

InitWin ==
    /\ InitGameIdle
    /\ callBoard \in {RunBoard(WinSize, i, j, d, len, p) :
                        i \in 0..(WinSize - 1), j \in 0..(WinSize - 1),
                        d \in Directions, len \in 0..MaxRun,
                        p \in {Player1, Player2}}
    /\ callEdited = FALSE
    /\ callRet = NoCall
    /\ InitChatIdle /\ InitRedrawIdle /\ InitT3Idle

\* One cell of the drawn board is overwritten with any content.
WinEdit ==
    /\ ~callEdited
    /\ \E i \in 0..(WinSize - 1), j \in 0..(WinSize - 1),
          v \in {Empty, Player1, Player2} :
         /\ callBoard[i][j] # v
         /\ callBoard' = [callBoard EXCEPT ![i][j] = v]
    /\ callEdited' = TRUE
    /\ callRet' = NoCall
    /\ UNCHANGED <<gameVars, procVars, ev, unitVars>>

WinCall ==
    /\ \E p \in {Player1, Player2} :
         callRet' = [player |-> p, result |-> checkWinLogic(callBoard, p)]
    /\ UNCHANGED <<callBoard, callEdited, gameVars, procVars, ev, unitVars>>

NextWin == WinEdit \/ WinCall
SpecWin == InitWin /\ [][NextWin]_vars

\* Five consecutive cells of b, all inside the board and all equal to p, along
\* a row, a column or either diagonal.
HasFiveInRow(b, p) ==
    \E i \in DOMAIN b, j \in DOMAIN b, d \in Directions :
        \A k \in 0..4 :
            /\ i + k * d[1] \in DOMAIN b
            /\ j + k * d[2] \in DOMAIN b
            /\ b[i + k * d[1]][j + k * d[2]] = p

\* C4: checkWinLogic(board, p) is true iff the board holds five consecutive
\* cells equal to p along a row, a column or a diagonal; false when empty.
C4_WinIffFive ==
    callRet.player # 0 =>
        /\ callRet.result = HasFiveInRow(callBoard, callRet.player)
        /\ (callBoard = NewBoard(WinSize) => ~callRet.result)

\* C4 witness: a call answered true on an anti-diagonal run that ends in
\* column 0.
C4_Witness ==
    /\ callRet.player # 0
    /\ callRet.result
    /\ \E i \in 0..(WinSize - 5) :
         \A k \in 0..4 : callBoard[i + k][4 - k] = callRet.player

(***************************************************************************)
(* Claims about the two-peer system (Spec)                                 *)
(***************************************************************************)
Running(s) == loop[s] \in {"top", "select", "closing"}
IsMove(m) == m.Type = MsgTypeMove

\* A Move that is held by a started sender or about to be handed to one
\* (unsent), written and not yet decoded (in flight), or decoded and not yet
\* handled (queued).
MovePending ==
    \E s \in Side :
        \/ \E m \in BagToSet(senders[s]) : IsMove(m)
        \/ IsMove(messageToSend[s])
        \/ \E i \in DOMAIN wire[s] : IsMove(wire[s][i])
        \/ IsMove(recv[s].msg)
        \/ \E i \in DOMAIN networkMsgChan[s] : IsMove(networkMsgChan[s][i])

\* C1: while both event loops run and no Move is unsent, in flight or
\* queued, the two boards are equal cell for cell.
C1_BoardsConsistent ==
    ((\A s \in Side : Running(s)) /\ ~MovePending)
        => board["server"] = board["client"]

MayPlace(s) == ~gameOver[s] /\ currentPlayer[s] = playerID[s]

\* C2 as stated: never do both sides have gameOver = false and currentPlayer
\* equal to their own playerID.
C2_TurnAuthorityAsStated == ~(\A s \in Side : MayPlace(s))

\* C2 amended: never do both sides have gameOver = false, a playerID that is
\* assigned (non-zero) and currentPlayer equal to it: at most one side passes
\* the turn check of handleUserInput.
C2_TurnAuthority == ~(\A s \in Side : playerID[s] # 0 /\ MayPlace(s))

\* C2 witness: the turn has passed to the connecting side, which may place
\* while the listening side may not.
C2_Witness ==
    /\ playerID["client"] = Player2 /\ MayPlace("client")
    /\ playerID["server"] = Player1 /\ ~gameOver["server"]
    /\ currentPlayer["server"] = Player2

\* C3: quitChan is closed at most once by each process: no close is ever
\* executed on the closed channel.
C3_QuitClosedOnce == \A s \in Side : quitChan[s] <= 1

C10_Roles ==
    (\A s \in Side : playerID[s] # 0) =>
        (playerID["server"] = Player1 /\ playerID["client"] = Player2)

(***************************************************************************)
(* Claims about the handlers of one process (SpecSide)                     *)
(***************************************************************************)
NoEmptyCell(b) == \A c \in Cells : b[c[1]][c[2]] # Empty
InRange(x, y) == x \in 0..(BoardSize - 1) /\ y \in 0..(BoardSize - 1)
BadTarget(b, x, y) == ~InRange(x, y) \/ b[x][y] # Empty

IsNetMove == ev.kind = "net" /\ ev.msg.Type = MsgTypeMove
IsLocalMove ==
    /\ ev.kind = "input" /\ ~ev.line.chat
    /\ Len(ev.line.parts) = 2 /\ ev.line.parts[1].num /\ ev.line.parts[2].num
\* the turn check an inbound Move passes (line 356) while the game runs
InTurnInbound ==
    /\ IsNetMove /\ ~ev.pre.gameOver
    /\ ev.msg.Player # ev.pre.playerID /\ ev.pre.currentPlayer = ev.msg.Player
\* the turn check a local move passes (lines 444-464)
InTurnLocal ==
    /\ IsLocalMove /\ ~ev.pre.gameOver
    /\ ev.pre.playerID # 0 /\ ev.pre.currentPlayer = ev.pre.playerID

Mover == IF ev.kind = "net" THEN ev.msg.Player ELSE ev.pre.playerID
RulesUnchanged ==
    /\ board[ev.side] = ev.pre.board
    /\ currentPlayer[ev.side] = ev.pre.currentPlayer
    /\ winner[ev.side] = ev.pre.winner
    /\ gameOver[ev.side] = ev.pre.gameOver

\* C5: after a successful placement (local or inbound): five in a row for the
\* mover gives gameOver and winner = mover, also on a board that is now
\* full; else a full board gives gameOver and winner = Draw; else the game
\* goes on with gameOver = false and winner = 0.
C5_PlacementOutcome ==
    (ev.kind \in {"net", "input"} /\ ev.valid = "true") =>
        LET s == ev.side
        IN IF HasFiveInRow(board[s], Mover)
           THEN gameOver[s] /\ winner[s] = Mover
           ELSE IF NoEmptyCell(board[s])
           THEN gameOver[s] /\ winner[s] = Draw
           ELSE ~gameOver[s] /\ winner[s] = 0

\* C5 witness: an inbound Move filled the last empty cell and completed
\* five in a row, and the mover is the winner.
C5_Witness ==
    /\ ev.kind = "net" /\ ev.valid = "true"
    /\ NoEmptyCell(board[ev.side])
    /\ HasFiveInRow(board[ev.side], ev.msg.Player)
    /\ winner[ev.side] = ev.msg.Player

\* C6: a move to a cell outside [0,15) in either coordinate or to an occupied
\* cell fails (placePieceInternal returns false) and leaves board,
\* currentPlayer, winner and gameOver as they were, for a local move and for
\* an in-turn inbound Move.
C6_InvalidMoveRejected ==
    /\ (InTurnLocal /\ BadTarget(ev.pre.board, ev.line.parts[1].val,
                                 ev.line.parts[2].val))
          => (ev.valid = "false" /\ RulesUnchanged)
    /\ (InTurnInbound /\ BadTarget(ev.pre.board, ev.msg.X, ev.msg.Y))
          => (ev.valid = "false" /\ RulesUnchanged)

\* C6 witness: an in-turn inbound Move to an occupied cell was rejected.
C6_Witness ==
    /\ InTurnInbound
    /\ InRange(ev.msg.X, ev.msg.Y)
    /\ ev.pre.board[ev.msg.X][ev.msg.Y] # Empty
    /\ ev.valid = "false"

\* C8: an inbound Move whose sender is not currentPlayer, or is the local
\* playerID, is discarded: board, currentPlayer, winner and gameOver are
\* unchanged, no Error is sent and the redraw flag is not set.
C8_OutOfTurnDiscarded ==
    (IsNetMove /\ (ev.msg.Player # ev.pre.currentPlayer
                   \/ ev.msg.Player = ev.pre.playerID))
        => /\ RulesUnchanged
           /\ ev.valid = "none"
           /\ ~ev.sendError
           /\ needsRedraw[ev.side] = ev.preRedraw

\* C8 witness: a self-echo, a Move of the local player on its own turn to
\* an empty cell, was discarded while the game runs.
C8_Witness ==
    /\ IsNetMove /\ ~ev.pre.gameOver
    /\ ev.msg.Player = ev.pre.playerID
    /\ ev.pre.currentPlayer = ev.msg.Player
    /\ InRange(ev.msg.X, ev.msg.Y)
    /\ board[ev.side][ev.msg.X][ev.msg.Y] = Empty
    /\ ~needsRedraw[ev.side]

\* The Move handled now was applied before: its cell holds the stone of its
\* sender, who is not the local player.
Replayed ==
    /\ IsNetMove
    /\ InRange(ev.msg.X, ev.msg.Y)
    /\ ev.msg.Player # Empty /\ ev.msg.Player # ev.pre.playerID
    /\ ev.pre.board[ev.msg.X][ev.msg.Y] = ev.msg.Player

\* C9 as stated: a Move handled again after it was applied is rejected by
\* the occupied-cell check (placePieceInternal returns false) and the board
\* is unchanged.
C9_ReplayAsStated ==
    Replayed => (ev.valid = "false" /\ board[ev.side] = ev.pre.board)

\* C9 amended: a Move handled again after it was applied leaves the board
\* unchanged; placePieceInternal is called (and returns false) exactly when
\* the game is not over and the turn is the sender's again; otherwise the
\* game-over check or the turn check discards the message before it.
C9_ReplayIdempotent ==
    Replayed =>
        /\ board[ev.side] = ev.pre.board
        /\ ev.valid = IF ~ev.pre.gameOver /\ ev.pre.currentPlayer = ev.msg.Player
                      THEN "false" ELSE "none"

\* C9 witness: a replayed Move was discarded by the turn check, the turn
\* having passed to the local player when it was applied.
C9_Witness ==
    /\ Replayed /\ ~ev.pre.gameOver
    /\ ev.pre.currentPlayer = ev.pre.playerID
    /\ ev.valid = "none"
    /\ board[ev.side] = ev.pre.board

\* C7: after a successful move that does not end the game, currentPlayer of
\* the side that applied it is the other player, 3 - mover, for a local move
\* and for an accepted inbound Move.
C7_TurnHandoff ==
    /\ (ev.kind = "input" /\ ev.valid = "true" /\ ~gameOver[ev.side])
          => currentPlayer[ev.side] = 3 - ev.pre.playerID
    /\ (ev.kind = "net" /\ ev.valid = "true" /\ ~gameOver[ev.side])
          => currentPlayer[ev.side] = 3 - ev.msg.Player

\* C10 amended: an Assign handled while the game is not over sets, if
\* playerID is 0, playerID to the message's player and currentPlayer to
\* Player1, and changes nothing if playerID is non-zero; an Assign handled
\* after the game is over changes nothing (the handler takes its game-over
\* path); playerID, once non-zero, never changes; the listening side is
\* Player1 from the start.
C10_AssignWhileRunning ==
    (ev.kind = "net" /\ ev.msg.Type = MsgTypeAssign) =>
        IF ev.pre.gameOver
        THEN GS(ev.side) = ev.pre /\ ev.fatal
        ELSE IF ev.pre.playerID = 0
        THEN /\ playerID[ev.side] = ev.msg.Player
             /\ currentPlayer[ev.side] = Player1
        ELSE GS(ev.side) = ev.pre

C10_ListenerIsPlayer1 ==
    loop["server"] # "env" => playerID["server"] = Player1

C11_ReadFailureClosesOnce ==
    \A s \in Side :
        recv[s].pc = "failed" => (quitChan[s] = 1 /\ recv[s].msg = NoMessage)
\* C12: outside the critical sections gameOver is true iff winner is not 0.
C12_GameOverIffWinner ==
    \A s \in Side : gameOver[s] <=> (winner[s] # 0)

(***************************************************************************)
(* Claims about the handlers of one process (SpecSide), continued          *)
(***************************************************************************)
\* Nothing was handed to a sender and nothing was written by the last step.
NothingSent ==
    /\ senders[ev.side] = EmptyBag
    /\ messageToSend[ev.side] = NoMessage
    /\ wire[Peer(ev.side)] = <<>>

\* C13: a local move line handled while the local identity is unassigned,
\* the game is over or it is not the local turn is rejected: board,
\* currentPlayer, winner, gameOver, playerID and the chat log are unchanged
\* and no message is sent.
C13_LocalMoveRejected ==
    (IsLocalMove /\ (ev.pre.playerID = 0 \/ ev.pre.gameOver
                     \/ ev.pre.currentPlayer # ev.pre.playerID))
        => /\ GS(ev.side) = ev.pre
           /\ ev.valid = "none"
           /\ ev.early = <<>> /\ ev.messageToSend = NoMessage
           /\ NothingSent

\* C13 witness: an assigned side whose game is running typed a move to an
\* empty cell of the board while it was the other player's turn.
C13_Witness ==
    /\ IsLocalMove
    /\ ev.pre.playerID # 0 /\ ~ev.pre.gameOver
    /\ ev.pre.currentPlayer = 3 - ev.pre.playerID
    /\ InRange(ev.line.parts[1].val, ev.line.parts[2].val)
    /\ board[ev.side][ev.line.parts[1].val][ev.line.parts[2].val] = Empty

\* C14: once quitChan of a process is closed, its event loop applies no
\* further event to the game state and no further message is written to the
\* connection.
C14_QuietAfterQuit ==
    [][\A s \in Side :
          (quitChan[s] >= 1 /\ ~Dead(s)) =>
              /\ GS(s)' = GS(s)
              /\ Len(wire'[Peer(s)]) <= Len(wire[Peer(s)])]_vars

\* C15: Finished is terminal.  Once gameOver is true on a side it stays
\* true and board, currentPlayer, winner and playerID do not change any
\* more; and a handler that has set gameOver has closed quitChan when it
\* returns.
C15_FrozenStep ==
    \A s \in Side :
        gameOver[s] =>
            /\ gameOver'[s]
            /\ board'[s] = board[s]
            /\ currentPlayer'[s] = currentPlayer[s]
            /\ winner'[s] = winner[s]
            /\ playerID'[s] = playerID[s]

C15_OverImpliesQuit ==
    \A s \in Side :
        (gameOver[s] /\ loop[s] # "closing") => quitChan[s] >= 1

C15_FinishedTerminal ==
    /\ []C15_OverImpliesQuit
    /\ [][C15_FrozenStep]_vars

\* C15 witness: with the game over, a StateSync that names no winner was
\* taken from the select, and gameOver is still true.
C15_Witness ==
    /\ ev.kind = "net" /\ ev.msg.Type = MsgTypeState /\ ev.msg.Winner = 0
    /\ ev.pre.gameOver
    /\ gameOver[ev.side] /\ winner[ev.side] = ev.pre.winner
    /\ quitChan[ev.side] >= 1

(***************************************************************************)
(* Claims about the two-peer system (Spec), continued                      *)
(***************************************************************************)
\* C16: a local move that ends the game hands to SendMessage the Move and a
\* StateSync with Winner equal to the local winner and Turn 0; and whenever
\* both sides have gameOver, their winners are equal.
C16_EndDispatch ==
    (ev.kind = "input" /\ ev.valid = "true" /\ gameOver[ev.side]) =>
        LET s == ev.side
            move == Message(MsgTypeMove, ev.pre.playerID, ev.line.parts[1].val,
                            ev.line.parts[2].val, "", 0, 0)
            sync == Message(MsgTypeState, 0, 0, 0, "", 0, winner[s])
        IN /\ ev.messageToSend = move
           /\ ev.early = <<sync>>
           /\ BagIn(sync, senders[s])
           /\ messageToSend[s] = move \/ BagIn(move, senders[s])

C16_SameWinner ==
    (\A s \in Side : gameOver[s]) => winner["server"] = winner["client"]

C16_OutcomeConvergence == C16_EndDispatch /\ C16_SameWinner

\* C16 witness: the listening side has won by a local move and the
\* connecting side has learned of it; both hold winner = Player1.
C16_Witness ==
    /\ \A s \in Side : gameOver[s] /\ winner[s] = Player1
    /\ HasFiveInRow(board["server"], Player1)

(***************************************************************************)
(* Claims about chat (SpecSide)                                            *)
(***************************************************************************)
\* C17: an inbound Chat handled by the loop appends exactly one entry under
\* the sender's display name and marks redraw pending, for every sender id,
\* while the game runs and after gameOver; board, currentPlayer, winner and
\* gameOver are unchanged.
C17_InboundChat ==
    (ev.kind = "net" /\ ev.msg.Type = MsgTypeChat) =>
        /\ chatHistory[ev.side] =
              Append(ev.pre.chatHistory, <<senderName(ev.msg), ev.msg.Content>>)
        /\ needsRedraw[ev.side]
        /\ RulesUnchanged

\* C17, the part after gameOver alone: a Chat handled after gameOver marks
\* redraw pending.
C17_ChatAfterGameOver ==
    (ev.kind = "net" /\ ev.msg.Type = MsgTypeChat /\ ev.pre.gameOver) =>
        (needsRedraw[ev.side] /\ ~ev.fatal)

\* C18: a local chat command with non-empty text, handled on an assigned
\* side whose game is running, is appended to the local chat log and its
\* Chat message is handed to a sender goroutine, whether or not it is the
\* local turn; board, currentPlayer, winner and gameOver are unchanged.
C18_LocalChat ==
    (/\ ev.kind = "input" /\ ev.line.chat /\ ev.line.text # ""
     /\ ev.pre.playerID # 0 /\ ~ev.pre.gameOver) =>
        LET chat == Message(MsgTypeChat, ev.pre.playerID, 0, 0, ev.line.text, 0, 0)
        IN /\ chatHistory[ev.side] =
                 Append(ev.pre.chatHistory,
                        <<localName(ev.pre.playerID), ev.line.text>>)
           /\ ev.messageToSend = chat
           /\ BagIn(chat, senders[ev.side])
           /\ RulesUnchanged

\* A message that is held by a started sender or about to be handed to
\* one, written and not yet decoded, or decoded and not yet handled.
MessagePending ==
    \E s \in Side :
        \/ senders[s] # EmptyBag
        \/ messageToSend[s] # NoMessage
        \/ wire[s] # <<>>
        \/ recv[s].msg # NoMessage
        \/ networkMsgChan[s] # <<>>

\* C19: no lost turn.  The two-peer system never is in a state where both
\* event loops run, neither side has gameOver, no message is unsent, in
\* flight or queued, and neither side has currentPlayer equal to its own
\* playerID.
C19_NoLostTurn ==
    ~(/\ \A s \in Side : Running(s) /\ ~gameOver[s]
      /\ ~MessagePending
      /\ \A s \in Side : currentPlayer[s] # playerID[s])

(***************************************************************************)
(* Claims about the Error message (SpecSide)                               *)
(***************************************************************************)
ErrorReply == Message(MsgTypeError, 0, 0, 0, "Received invalid move", 0, 0)

\* C20: an in-turn inbound Move to an occupied or out-of-range cell makes
\* the handler write exactly one Error message to the peer, leaves board,
\* currentPlayer, winner and gameOver unchanged and does not end the game;
\* an inbound Error leaves board, currentPlayer, winner and gameOver
\* unchanged.
C20_ErrorReply ==
    /\ (InTurnInbound /\ BadTarget(ev.pre.board, ev.msg.X, ev.msg.Y)) =>
          /\ ev.sendError
          /\ wire[Peer(ev.side)] = <<Encode(ErrorReply)>>
          /\ senders[ev.side] = EmptyBag
          /\ RulesUnchanged
          /\ ~gameOver[ev.side] /\ loop[ev.side] = "top"
          /\ quitChan[ev.side] = 0
    /\ (ev.kind = "net" /\ ev.msg.Type = MsgTypeError) => RulesUnchanged

\* C20 witness: an in-turn inbound Move to a cell outside the board was
\* answered with one Error message.
C20_Witness ==
    /\ InTurnInbound /\ ~InRange(ev.msg.X, ev.msg.Y)
    /\ wire[Peer(ev.side)] = <<Encode(ErrorReply)>>
    /\ ~gameOver[ev.side]

(***************************************************************************)
(* Claims about StateSync (SpecSide)                                       *)
(***************************************************************************)
\* C21: an inbound StateSync handled while the game is not over sets
\* currentPlayer to its Turn, winner to its Winner and gameOver to
\* (Winner # 0), and leaves the board and playerID unchanged.
C21_StateSyncFrame ==
    (ev.kind = "net" /\ ev.msg.Type = MsgTypeState /\ ~ev.pre.gameOver) =>
        /\ currentPlayer[ev.side] = ev.msg.Turn
        /\ winner[ev.side] = ev.msg.Winner
        /\ gameOver[ev.side] = (ev.msg.Winner # 0)
        /\ board[ev.side] = ev.pre.board
        /\ playerID[ev.side] = ev.pre.playerID
        /\ chatHistory[ev.side] = ev.pre.chatHistory

\* C21 witness: a StateSync with Turn 2 and Winner 3 was handled on a board
\* that holds stones while it was Player1's turn.
C21_Witness ==
    /\ ev.kind = "net" /\ ev.msg.Type = MsgTypeState /\ ~ev.pre.gameOver
    /\ ev.pre.currentPlayer = Player1 /\ ev.msg.Turn = Player2
    /\ ev.msg.Winner = Draw
    /\ currentPlayer[ev.side] = Player2 /\ gameOver[ev.side]
    /\ board[ev.side] = FourBoard

(***************************************************************************)
(* Claims about the sender tasks (SpecSide)                                *)
(***************************************************************************)
\* C22: every message written to the connection is written by a separate
\* sender task: a step that puts a message on the wire to the peer takes
\* that message from the pending sender tasks, so the event loop's own
\* handler steps never write.
C22_WritesBySenders ==
    [][\A s \in Side :
         Len(wire'[Peer(s)]) > Len(wire[Peer(s)]) =>
            \E m \in BagToSet(senders[s]) :
               /\ senders'[s] = senders[s] (-) SetToBag({m})
               /\ wire'[Peer(s)] = Append(wire[Peer(s)], Encode(m))]_vars

(***************************************************************************)
(* Claims about the locks (SpecSide)                                       *)
(***************************************************************************)
\* C23: while it handles an event the main goroutine, the only task that
\* takes locks, never holds two of gs.mu, gs.chatMu and gs.redrawMu at
\* once, holds no lock during a network write or in the select, and never
\* locks a mutex it already holds, so no task blocks forever on a lock.
C23_LockDiscipline ==
    (ev.kind \in {"net", "input"}) =>
        /\ ev.locks.maxHeld <= 1
        /\ ev.locks.atWrite = {}
        /\ ev.locks.atSelect = {}
        /\ ev.locks.fault # "deadlock"

\* C23 witness: the handler wrote an Error reply with gs.mu released and
\* took it again, then the loop redrew and reached its select.
C23_Witness ==
    /\ ev.kind = "net" /\ ev.sendError
    /\ ev.locks.writes = 1 /\ ev.locks.selects = 1
    /\ ev.locks.maxHeld = 1 /\ ev.locks.fault = "none"

(***************************************************************************)
(* Claims about shutdown (SpecFair)                                        *)
(***************************************************************************)
LoopEnded(s) == loop[s] \in {"exited", "gone", "panic", "fatal"}
RecvEnded(s) == recv[s].pc \in {"done", "failed"}
InputEnded(s) == inp[s] = "done"

\* C24: once quitChan of a side is closed, its event loop, its
\* networkReceiver and its inputReader each eventually end; a task that has
\* ended stays ended, and a reader publishes to no queue and starts no read
\* after it took the quitChan case; a reader waiting to publish while
\* quitChan is closed eventually ends.
C24_Shutdown ==
    /\ \A s \in Side :
          (quitChan[s] >= 1) ~> (LoopEnded(s) /\ RecvEnded(s) /\ InputEnded(s))
    /\ \A s \in Side :
          (inp[s] = "publish" /\ quitChan[s] >= 1) ~> InputEnded(s)
    /\ \A s \in Side :
          (recv[s].pc = "publish" /\ quitChan[s] >= 1) ~> RecvEnded(s)
    /\ [][\A s \in Side :
            /\ RecvEnded(s) =>
                  /\ RecvEnded(s)'
                  /\ Len(networkMsgChan'[s]) <= Len(networkMsgChan[s])
            /\ InputEnded(s) =>
                  /\ InputEnded(s)'
                  /\ inputChan'[s] <= inputChan[s]
            /\ LoopEnded(s) => (LoopEnded(s)' /\ GS(s)' = GS(s))]_vars

\* C24 witness: the inputReader waits to publish a line to the full
\* inputChan while quitChan is closed and the loop has not left yet.
C24_Witness ==
    \E s \in Side :
        /\ inp[s] = "publish" /\ inputChan[s] = InputChanCap
        /\ quitChan[s] = 1 /\ loop[s] \in {"top", "select"}
        /\ recv[s].pc = "decode"

(***************************************************************************)
(* Claims about the board (SpecSide)                                       *)
(***************************************************************************)
CellsOf(b) == {<<x, y>> : x \in DOMAIN b, y \in DOMAIN b}

\* C25: every cell of a board holds Empty, Player1 or Player2, and a cell
\* that holds a player value keeps it in every step, whatever lines and
\* inbound messages are handled.
C25_BoardMonotone ==
    /\ [](\A s \in Side : \A c \in CellsOf(board[s]) :
            board[s][c[1]][c[2]] \in {Empty, Player1, Player2})
    /\ [][\A s \in Side : \A c \in CellsOf(board[s]) :
            board[s][c[1]][c[2]] # Empty =>
               board'[s][c[1]][c[2]] = board[s][c[1]][c[2]]]_vars

EmptyRow == [y \in 0..(BoardSize - 1) |-> Empty]

\* C26: on the board of each side the number of Player1 stones minus the
\* number of Player2 stones is 0 or 1, so the first stone on a board is
\* Player1's (two-peer system).
C26_Alternation ==
    \A s \in Side :
        ~Dead(s) =>
            LET rows == {x \in 0..(BoardSize - 1) : board[s][x] # EmptyRow}
                stones == {c \in rows \X (0..(BoardSize - 1)) :
                             board[s][c[1]][c[2]] # Empty}
                ofP1 == {c \in stones : board[s][c[1]][c[2]] = Player1}
                ofP2 == {c \in stones : board[s][c[1]][c[2]] = Player2}
            IN /\ stones = ofP1 \cup ofP2
               /\ Cardinality(ofP1) - Cardinality(ofP2) \in {0, 1}

\* C26 witness: the connecting side's board holds three stones of Player1
\* and two of Player2.
C26_Witness ==
    /\ ~Dead("client")
    /\ \A y \in 0..2 : board["client"][7][y] = Player1
    /\ \A y \in 0..1 : board["client"][8][y] = Player2
    /\ board["client"][7][3] = Empty /\ board["client"][8][2] = Empty

(***************************************************************************)
(* SpecChat: AddChatMessage on the chat log of one process.  The log the   *)
(* specification starts with is the one k earlier calls leave, k up to     *)
(* maxChatHistory; MaxChatAdds further calls follow, with any sender and   *)
(* text.                                                                   *)
(***************************************************************************)
OldTexts ==
    <<"m01", "m02", "m03", "m04", "m05", "m06", "m07", "m08", "m09", "m10",
      "m11", "m12", "m13", "m14", "m15", "m16", "m17", "m18", "m19", "m20">>
NewTexts == {"hi", "yo"}
ChatSenders == {<<"Player", Player2>>, <<"You (Player)", Player1>>}

RECURSIVE OldLog(_)
OldLog(k) ==
    IF k = 0 THEN <<>>
    ELSE AddChatMessage(OldLog(k - 1), <<"Player", Player2>>, OldTexts[k])

InitChat ==
    /\ IdleBoard /\ IdleProc
    /\ needsRedraw = [s \in {} |-> 0]
    /\ ev = NoEvent
    /\ InitWinIdle /\ InitRedrawIdle /\ InitT3Idle
    /\ \E k \in 0..Len(OldTexts) :
         /\ chatHistory = [s \in {"server"} |-> OldLog(k)]
         /\ appended = OldLog(k)

\* gs.AddChatMessage(sender, text), lines 186-194
AddChat(s) ==
    /\ Cardinality({i \in 1..Len(appended) : appended[i][2] \in NewTexts})
          < MaxChatAdds
    /\ \E sender \in ChatSenders, text \in NewTexts :
         /\ chatHistory' = [chatHistory EXCEPT ![s] =
                               AddChatMessage(@, sender, text)]
         /\ appended' = Append(appended, <<sender, text>>)
    /\ UNCHANGED <<board, currentPlayer, winner, gameOver, playerID,
                   needsRedraw, procVars, ev, callBoard, callEdited, callRet,
                   redrawMu, redrawTask, requested, game>>

NextChat == \E s \in DOMAIN chatHistory : AddChat(s)
SpecChat == InitChat /\ [][NextChat]_vars

\* C27: after any sequence of AddChatMessage calls the chat log holds at
\* most 20 entries and is the last min(n, 20) of the n entries appended, in
\* the order they were appended.
C27_ChatLogBounded ==
    \A s \in DOMAIN chatHistory :
        LET n == Len(appended)
            k == IF n < 20 THEN n ELSE 20
        IN /\ Len(chatHistory[s]) <= 20
           /\ chatHistory[s] = SubSeq(appended, n - k + 1, n)

\* C27 witness: 22 entries were appended and the two oldest are gone.
C27_Witness ==
    /\ Len(appended) = 22
    /\ \E s \in DOMAIN chatHistory :
         /\ Len(chatHistory[s]) = 20
         /\ chatHistory[s][1] = appended[3]
         /\ chatHistory[s][20] = appended[22]

(***************************************************************************)
(* SpecRedraw: SetNeedsRedraw and CheckAndResetRedraw, statement by        *)
(* statement, called by tasks that interleave freely.  The main goroutine  *)
(* calls both; the other tasks stand for any goroutine that calls          *)
(* SetNeedsRedraw.  redrawTask[t].pc is "idle" or the line the task is     *)
(* about to execute.  requested counts the requests made since the last    *)
(* check read the flag; the flag is constructed set (line 575), which      *)
(* counts as the first request.                                            *)
(***************************************************************************)
RedrawTasks == {"main", "g1", "g2"}
Idle == [pc |-> "idle", needs |-> FALSE, seen |-> 0]
At(t, line) == redrawTask[t].pc = line
Goto(t, line) == redrawTask' = [redrawTask EXCEPT ![t].pc = line]

InitRedraw ==
    /\ IdleBoard /\ IdleProc
    /\ chatHistory = [s \in {} |-> 0]
    /\ ev = NoEvent
    /\ InitWinIdle /\ InitChatIdle /\ InitT3Idle
    /\ needsRedraw = [s \in {"server"} |-> TRUE]
    /\ redrawMu = "none"
    /\ redrawTask = [t \in RedrawTasks |-> Idle]
    /\ requested = 1

RedrawFrame ==
    UNCHANGED <<board, currentPlayer, winner, gameOver, playerID, chatHistory,
                procVars, callBoard, callEdited, callRet, appended, game>>

\* a call of gs.SetNeedsRedraw() by task t
SetCall(t) ==
    /\ At(t, "idle")
    /\ requested < MaxRequests
    /\ Goto(t, "69")
    /\ ev' = NoEvent
    /\ UNCHANGED <<needsRedraw, requested, redrawMu>>
    /\ RedrawFrame

\* line 69: gs.redrawMu.Lock()
SetLock(t) ==
    /\ At(t, "69")
    /\ redrawMu = "none"
    /\ redrawMu' = t
    /\ Goto(t, "70")
    /\ ev' = NoEvent
    /\ UNCHANGED <<needsRedraw, requested>>
    /\ RedrawFrame

\* line 70: gs.needsRedraw = true
SetWrite(t, s) ==
    /\ At(t, "70")
    /\ needsRedraw' = [needsRedraw EXCEPT ![s] = TRUE]
    /\ requested' = requested + 1
    /\ Goto(t, "71")
    /\ ev' = NoEvent
    /\ UNCHANGED redrawMu
    /\ RedrawFrame

\* line 71: gs.redrawMu.Unlock()
SetUnlock(t) ==
    /\ At(t, "71")
    /\ redrawMu' = "none"
    /\ Goto(t, "idle")
    /\ ev' = NoEvent
    /\ UNCHANGED <<needsRedraw, requested>>
    /\ RedrawFrame

\* line 645: the loop calls gs.CheckAndResetRedraw()
CheckCall(t) ==
    /\ t = "main"
    /\ At(t, "idle")
    /\ Goto(t, "76")
    /\ ev' = NoEvent
    /\ UNCHANGED <<needsRedraw, requested, redrawMu>>
    /\ RedrawFrame

CheckLock_NoLock(t) ==
    /\ At(t, "76")
    /\ Goto(t, "78")
    /\ ev' = NoEvent
    /\ UNCHANGED <<needsRedraw, requested, redrawMu>>
    /\ RedrawFrame

\* line 76: gs.redrawMu.Lock()
CheckLock(t) ==
    /\ At(t, "76")
    /\ redrawMu = "none"
    /\ redrawMu' = t
    /\ Goto(t, "78")
    /\ ev' = NoEvent
    /\ UNCHANGED <<needsRedraw, requested>>
    /\ RedrawFrame

\* line 78: needs := gs.needsRedraw
CheckRead(t, s) ==
    /\ At(t, "78")
    /\ redrawTask' = [redrawTask EXCEPT ![t] =
                         [pc |-> "79", needs |-> needsRedraw[s],
                          seen |-> requested]]
    /\ requested' = 0
    /\ ev' = NoEvent
    /\ UNCHANGED <<needsRedraw, redrawMu>>
    /\ RedrawFrame

\* line 79: gs.needsRedraw = false
CheckClear(t, s) ==
    /\ At(t, "79")
    /\ needsRedraw' = [needsRedraw EXCEPT ![s] = FALSE]
    /\ Goto(t, "80")
    /\ ev' = NoEvent
    /\ UNCHANGED <<requested, redrawMu>>
    /\ RedrawFrame

\* line 80: return needs, and the deferred gs.redrawMu.Unlock() of line 77
CheckReturn(t) ==
    /\ At(t, "80")
    /\ redrawMu' = "none"
    /\ redrawTask' = [redrawTask EXCEPT ![t] = Idle]
    /\ ev' = [kind |-> "check", returned |-> redrawTask[t].needs,
              requested |-> redrawTask[t].seen]
    /\ UNCHANGED <<needsRedraw, requested>>
    /\ RedrawFrame

NextRedraw ==
    \E t \in RedrawTasks, s \in DOMAIN needsRedraw :
        \/ SetCall(t)
        \/ SetLock(t)
        \/ SetWrite(t, s)
        \/ SetUnlock(t)
        \/ CheckCall(t)
        \/ CheckLock(t)
        \/ CheckRead(t, s)
        \/ CheckClear(t, s)
        \/ CheckReturn(t)

SpecRedraw == InitRedraw /\ [][NextRedraw]_vars

\* C28: CheckAndResetRedraw returns true exactly when at least one request
\* (a SetNeedsRedraw, or the flag's construction) was made since the
\* previous check, and leaves the flag false; while no call is in its
\* critical section the flag is set exactly when a request has not been
\* consumed by a check, so no request is lost or consumed twice.
C28_RedrawFlag ==
    /\ ev.kind = "check" =>
          /\ ev.returned = (ev.requested >= 1)
          /\ \A s \in DOMAIN needsRedraw : ~needsRedraw[s]
    /\ redrawMu = "none" =>
          \A s \in DOMAIN needsRedraw : needsRedraw[s] = (requested >= 1)

\* C28 witness: a check returned true for two requests made since the
\* previous check.
C28_Witness ==
    /\ ev.kind = "check" /\ ev.returned /\ ev.requested = 2
    /\ requested = 0

(***************************************************************************)
(* SpecEarly: the earlier variant of the engine (src/unnamed/part_000,     *)
(* lines 172-753).  One process: its main goroutine reads a line whenever  *)
(* it is its turn and handles it (lines 616-720), its ReceiveMessages      *)
(* goroutine decodes and handles what the peer sends (lines 417-530); the  *)
(* peer sends any message of the wire schema.  Both goroutines take gs.mu. *)
(* loop[s] and recv[s].pc are "deadlock" once the goroutine waits for a    *)
(* mutex it holds itself, and "blocked" once it waits for gs.mu while the  *)
(* other goroutine is in that state.                                       *)
(***************************************************************************)
\* part_000 lines 361-369
PlacePieceOps == <<Lock("mu"), Unlock("mu")>>

\* part_000 lines 441-521: the locks ReceiveMessages takes for one message
ReceiveMessagesOps(gs, msg) ==
    <<Lock("mu")>>
    \o (IF msg.Type = MsgTypeMove
        THEN IF msg.Player # gs.playerID /\ gs.currentPlayer = msg.Player
             THEN PlacePieceOps
                  \o (IF placePieceInternal(gs.board, msg.X, msg.Y, msg.Player).valid
                      THEN <<>> ELSE <<NetworkWrite>>)
             ELSE <<>>
        ELSE IF msg.Type = MsgTypeChat THEN AddChatMessageOps
        ELSE <<>>)
    \o <<Unlock("mu")>>

\* part_000 lines 618-707: the locks main takes in one iteration in which it
\* is its turn and it reads line
earlyMainOps(gs, line) ==
    <<Lock("mu"), Unlock("mu")>> \o DisplayChatOps
    \o (IF line.chat
        THEN IF line.text # "" THEN AddChatMessageOps \o <<NetworkWrite>> ELSE <<>>
        ELSE IF Len(line.parts) = 2 /\ line.parts[1].num /\ line.parts[2].num
        THEN <<Lock("mu")>> \o PlacePieceOps \o <<Unlock("mu")>>
             \o (IF placePieceInternal(gs.board, line.parts[1].val,
                                       line.parts[2].val, gs.playerID).valid
                 THEN <<NetworkWrite, Lock("mu"), Unlock("mu")>>
                 ELSE <<>>)
        ELSE <<>>)

\* part_000 lines 441-521: what ReceiveMessages leaves of the game state.  An
\* in-turn Move stops in PlacePiece, before anything is changed.
earlyReceive(gs, msg) ==
    CASE msg.Type = MsgTypeChat ->
           [gs EXCEPT !.chatHistory =
               AddChatMessage(@, IF msg.Player = gs.playerID
                                 THEN <<"You", 0>> ELSE senderName(msg),
                              msg.Content)]
      [] msg.Type = MsgTypeState ->
           [gs EXCEPT !.currentPlayer = msg.Turn, !.winner = msg.Winner,
                      !.gameOver = (msg.Winner # 0)]
      [] msg.Type = MsgTypeAssign /\ gs.playerID = 0 ->
           [gs EXCEPT !.playerID = msg.Player, !.currentPlayer = Player1]
      [] OTHER -> gs

\* part_000 lines 537-599: the listening side is Player1 and has written the
\* Assign; the connecting side waits for it; Player1 is to move.
InitEarly ==
    \E s \in Side :
        /\ board = [t \in Side |-> NewBoard(BoardSize)]
        /\ currentPlayer = [t \in Side |-> IF t = s THEN Player1 ELSE 0]
        /\ playerID = [t \in Side |-> IF t = s /\ s = "server" THEN Player1 ELSE 0]
        /\ winner = [t \in Side |-> 0]
        /\ gameOver = [t \in Side |-> FALSE]
        /\ chatHistory = [t \in Side |-> <<>>]
        /\ needsRedraw = [t \in Side |-> FALSE]
        /\ inputChan = [t \in Side |-> 0]
        /\ networkMsgChan = [t \in Side |-> <<>>]
        /\ quitChan = [t \in Side |-> 0]
        /\ loop = [t \in Side |-> IF t = s THEN "top" ELSE "env"]
        /\ messageToSend = [t \in Side |-> NoMessage]
        /\ recv = [t \in Side |-> RecvAt(IF t = s THEN "decode" ELSE "done")]
        /\ inp = [t \in Side |-> "done"]
        /\ senders = [t \in Side |-> EmptyBag]
        /\ wire = [t \in Side |->
                     IF t # s /\ s = "server"
                     THEN <<Encode(Message(MsgTypeAssign, Player2, 0, 0, "", 0, 0))>>
                     ELSE <<>>]
        /\ ev = NoEvent
        /\ InitCall

EarlyFrame ==
    UNCHANGED <<needsRedraw, inputChan, networkMsgChan, quitChan,
                messageToSend, inp, senders, callVars>>

EarlySetGame(s, gs) ==
    /\ board' = [board EXCEPT ![s] = gs.board]
    /\ currentPlayer' = [currentPlayer EXCEPT ![s] = gs.currentPlayer]
    /\ winner' = [winner EXCEPT ![s] = gs.winner]
    /\ gameOver' = [gameOver EXCEPT ![s] = gs.gameOver]
    /\ playerID' = [playerID EXCEPT ![s] = gs.playerID]
    /\ chatHistory' = [chatHistory EXCEPT ![s] = gs.chatHistory]

\* ReceiveMessages decodes msg and handles it under gs.mu
EarlyReceive(s) ==
    /\ recv[s].pc = "decode"
    /\ loop[s] = "top"
    /\ \E msg \in SideMsgs :
         LET locks == RunLocks(ReceiveMessagesOps(GS(s), msg), {}, NoLocks)
             gs == IF locks.fault = "none" THEN earlyReceive(GS(s), msg) ELSE GS(s)
         IN /\ msg.Type = MsgTypeChat => ChatRoom(s)
            /\ ev' = [kind |-> "net", side |-> s, msg |-> msg, pre |-> GS(s),
                      locks |-> locks]
            /\ EarlySetGame(s, gs)
            /\ recv' = [recv EXCEPT ![s] =
                          RecvAt(IF locks.fault # "none" THEN "deadlock"
                                 ELSE IF gs.gameOver THEN "done" ELSE "decode")]
    /\ UNCHANGED <<loop, wire>>
    /\ EarlyFrame

\* ReceiveMessages decodes a message and waits at line 441 for the gs.mu
\* that main holds for ever
EarlyReceiveBlocked(s) ==
    /\ recv[s].pc = "decode"
    /\ loop[s] = "deadlock"
    /\ recv' = [recv EXCEPT ![s] = RecvAt("blocked")]
    /\ ev' = NoEvent
    /\ UNCHANGED <<board, currentPlayer, winner, gameOver, playerID,
                   chatHistory, loop, wire>>
    /\ EarlyFrame

\* main, assigned and on its turn, reads line and handles it
EarlyInput(s) ==
    /\ loop[s] = "top"
    /\ recv[s].pc # "deadlock"
    /\ playerID[s] # 0 /\ ~gameOver[s] /\ currentPlayer[s] = playerID[s]
    /\ \E line \in SideLines :
         LET locks == RunLocks(earlyMainOps(GS(s), line), {}, NoLocks)
             chat == line.chat /\ line.text # ""
         IN /\ chat => (ChatRoom(s) /\ Len(wire[Peer(s)]) < MaxWire)
            /\ ev' = [kind |-> "input", side |-> s, line |-> line,
                      pre |-> GS(s), locks |-> locks]
            /\ chatHistory' = [chatHistory EXCEPT ![s] =
                 IF chat THEN AddChatMessage(@, localName(playerID[s]), line.text)
                 ELSE @]
            /\ wire' = [wire EXCEPT ![Peer(s)] =
                 IF chat
                 THEN Append(@, Encode(Message(MsgTypeChat, playerID[s], 0, 0,
                                               line.text, 0, 0)))
                 ELSE @]
            /\ loop' = [loop EXCEPT ![s] =
                          IF locks.fault # "none" THEN "deadlock" ELSE "top"]
    /\ UNCHANGED <<board, currentPlayer, winner, gameOver, playerID, recv>>
    /\ EarlyFrame

\* main waits at line 618 for the gs.mu that ReceiveMessages holds for ever
EarlyMainBlocked(s) ==
    /\ loop[s] = "top"
    /\ recv[s].pc = "deadlock"
    /\ loop' = [loop EXCEPT ![s] = "blocked"]
    /\ ev' = NoEvent
    /\ UNCHANGED <<board, currentPlayer, winner, gameOver, playerID,
                   chatHistory, recv, wire>>
    /\ EarlyFrame

\* lines 619-622: main finds gameOver and leaves its loop
EarlyMainExit(s) ==
    /\ loop[s] = "top"
    /\ recv[s].pc # "deadlock"
    /\ gameOver[s]
    /\ loop' = [loop EXCEPT ![s] = "exited"]
    /\ ev' = NoEvent
    /\ UNCHANGED <<board, currentPlayer, winner, gameOver, playerID,
                   chatHistory, recv, wire>>
    /\ EarlyFrame

NextEarly ==
    \E s \in Side :
        \/ EarlyReceive(s)
        \/ EarlyReceiveBlocked(s)
        \/ EarlyInput(s)
        \/ EarlyMainBlocked(s)
        \/ EarlyMainExit(s)
        \/ EnvRead(s)

SpecEarly == InitEarly /\ [][NextEarly]_vars

\* C29: in the earlier variant neither ReceiveMessages handling an in-turn
\* inbound Move nor main handling a local move waits for a gs.mu it holds
\* itself: the run of lock operations of either ends without a fault.
C29_NoSelfDeadlock ==
    /\ (ev.kind = "net" /\ ev.msg.Type = MsgTypeMove
        /\ ev.msg.Player # ev.pre.playerID
        /\ ev.pre.currentPlayer = ev.msg.Player) => ev.locks.fault = "none"
    /\ IsLocalMove => ev.locks.fault = "none"

(***************************************************************************)
(* SpecT3: the 3x3 game (src/unnamed/part_000, lines 1-149).  game is the  *)
(* TicTacToe struct NewGame returns; MakeMove is called with any row and   *)
(* column from -1 to MaxCoord.                                             *)
(***************************************************************************)
PlayerX == "X"
PlayerO == "O"
EmptyMark == " "
StatePlaying == 0
StateWon == 1
StateDraw == 2

\* part_000 lines 33-45
NewGame ==
    [board |-> [i \in 0..2 |-> [j \in 0..2 |-> EmptyMark]],
     currentPlayer |-> PlayerX, state |-> StatePlaying, winner |-> ""]

\* part_000 lines 128-149
checkWinCondition(b, player) ==
    \/ \E i \in 0..2 : b[i][0] = player /\ b[i][1] = player /\ b[i][2] = player
    \/ \E j \in 0..2 : b[0][j] = player /\ b[1][j] = player /\ b[2][j] = player
    \/ b[0][0] = player /\ b[1][1] = player /\ b[2][2] = player
    \/ b[0][2] = player /\ b[1][1] = player /\ b[2][0] = player

updateState_DrawFirst(g) ==
    IF \A i \in 0..2, j \in 0..2 : g.board[i][j] # EmptyMark
    THEN [g EXCEPT !.state = StateDraw, !.winner = ""]
    ELSE IF checkWinCondition(g.board, PlayerX)
    THEN [g EXCEPT !.state = StateWon, !.winner = PlayerX]
    ELSE IF checkWinCondition(g.board, PlayerO)
    THEN [g EXCEPT !.state = StateWon, !.winner = PlayerO]
    ELSE g

\* part_000 lines 95-125
updateState(g) ==
    IF checkWinCondition(g.board, PlayerX)
    THEN [g EXCEPT !.state = StateWon, !.winner = PlayerX]
    ELSE IF checkWinCondition(g.board, PlayerO)
    THEN [g EXCEPT !.state = StateWon, !.winner = PlayerO]
    ELSE IF \A i \in 0..2, j \in 0..2 : g.board[i][j] # EmptyMark
    THEN [g EXCEPT !.state = StateDraw, !.winner = ""]
    ELSE g

MakeMove_Overwrite(g, row, col) ==
    IF g.state # StatePlaying \/ row < 0 \/ row >= 3 \/ col < 0 \/ col >= 3
    THEN [g |-> g, err |-> TRUE]
    ELSE LET u == updateState([g EXCEPT !.board[row][col] = g.currentPlayer])
         IN [g |-> IF u.state = StatePlaying
                   THEN [u EXCEPT !.currentPlayer =
                            IF @ = PlayerX THEN PlayerO ELSE PlayerX]
                   ELSE u,
             err |-> FALSE]

\* part_000 lines 68-92: the struct it leaves and whether it returned an error
MakeMove(g, row, col) ==
    IF g.state # StatePlaying THEN [g |-> g, err |-> TRUE]
    ELSE IF row < 0 \/ row >= 3 \/ col < 0 \/ col >= 3
    THEN [g |-> g, err |-> TRUE]
    ELSE IF g.board[row][col] # EmptyMark THEN [g |-> g, err |-> TRUE]
    ELSE LET u == updateState([g EXCEPT !.board[row][col] = g.currentPlayer])
         IN [g |-> IF u.state = StatePlaying
                   THEN [u EXCEPT !.currentPlayer =
                            IF @ = PlayerX THEN PlayerO ELSE PlayerX]
                   ELSE u,
             err |-> FALSE]

InitT3 ==
    /\ InitGameIdle
    /\ InitWinIdle /\ InitChatIdle /\ InitRedrawIdle
    /\ game = NewGame

\* g.MakeMove(row, col); the history keeps who placed the last mark and how
\* many calls returned nil
T3Move ==
    \E row \in (-1)..MaxCoord, col \in (-1)..MaxCoord :
        LET r == MakeMove(game, row, col)
        IN /\ game' = r.g
           /\ ev' = [kind |-> "MakeMove", row |-> row, col |-> col,
                     err |-> r.err, pre |-> game,
                     last |-> IF ~r.err THEN game.currentPlayer
                              ELSE IF ev.kind = "MakeMove" THEN ev.last ELSE "",
                     moves |-> (IF ev.kind = "MakeMove" THEN ev.moves ELSE 0)
                               + (IF r.err THEN 0 ELSE 1)]
           /\ UNCHANGED <<gameVars, procVars, callBoard, callEdited, callRet,
                          appended, redrawMu, redrawTask, requested>>

NextT3 == T3Move
SpecT3 == InitT3 /\ [][NextT3]_vars

\* C30: MakeMove returns an error and leaves board, currentPlayer, state and
\* winner unchanged when the game is not StatePlaying, row or col is outside
\* [0,3), or the cell is not empty; otherwise it places the current player's
\* mark and, if the game is still playing, switches currentPlayer.
C30_MakeMove ==
    ev.kind = "MakeMove" =>
        LET pre == ev.pre
            row == ev.row
            col == ev.col
            rejected == \/ pre.state # StatePlaying
                        \/ row \notin 0..2 \/ col \notin 0..2
                        \/ pre.board[row][col] # EmptyMark
        IN IF rejected
           THEN ev.err /\ game = pre
           ELSE /\ ~ev.err
                /\ game.board = [pre.board EXCEPT ![row][col] = pre.currentPlayer]
                /\ game.state = StatePlaying =>
                      /\ game.currentPlayer # pre.currentPlayer
                      /\ game.currentPlayer \in {PlayerX, PlayerO}

\* C30 witness: a move to an occupied cell of a running game was refused.
C30_Witness ==
    /\ ev.kind = "MakeMove" /\ ev.err
    /\ ev.pre.state = StatePlaying
    /\ ev.row \in 0..2 /\ ev.col \in 0..2
    /\ ev.pre.board[ev.row][ev.col] = PlayerO
    /\ game = ev.pre

\* what the 3x3 board shows: a line of three of one mark, no empty cell
Line3(b, p) ==
    \E l \in { {<<i, 0>>, <<i, 1>>, <<i, 2>>} : i \in 0..2 }
           \cup { {<<0, j>>, <<1, j>>, <<2, j>>} : j \in 0..2 }
           \cup { {<<0, 0>>, <<1, 1>>, <<2, 2>>}, {<<0, 2>>, <<1, 1>>, <<2, 0>>} } :
        \A c \in l : b[c[1]][c[2]] = p
Full3(b) == \A i \in 0..2, j \in 0..2 : b[i][j] \in {PlayerX, PlayerO}

\* the outcome of the 3x3 game against the board and the last mark placed
Outcome3 ==
    ev.kind = "MakeMove" =>
        LET b == game.board
            last == ev.last
            lined == last # "" /\ Line3(b, last)
            drawn == Full3(b) /\ ~Line3(b, PlayerX) /\ ~Line3(b, PlayerO)
        IN /\ (game.state = StateWon /\ game.winner = last) <=> lined
           /\ game.state = StateWon => game.winner = last
           /\ (game.state = StateDraw /\ game.winner = "") <=> drawn
           /\ game.state = StateDraw => game.winner = ""
           /\ game.state = StatePlaying <=> (~lined /\ ~drawn)
           /\ game.state \in {StatePlaying, StateWon, StateDraw}
           /\ ev.moves <= 9
           /\ ev.moves = 9 => game.state # StatePlaying

\* C31: from NewGame, after any sequence of MakeMove calls the state is
\* StateWon with winner the player who placed the last mark iff that player
\* has three in a line, StateDraw with empty winner iff the board is full
\* with no line, and StatePlaying otherwise; the game has left StatePlaying
\* after at most 9 successful moves and never returns to it.
C31_Outcome ==
    /\ []Outcome3
    /\ [][game.state # StatePlaying => game'.state = game.state]_vars

\* C31 witness: the ninth mark completed a line on the full board, so the
\* game is won, not drawn.
C31_Witness ==
    /\ ev.kind = "MakeMove" /\ ~ev.err /\ ev.moves = 9
    /\ Full3(game.board) /\ Line3(game.board, PlayerX)
    /\ game.state = StateWon /\ game.winner = PlayerX /\ ev.last = PlayerX

\* C31 second case: a full board without a line is a draw.
C31_WitnessDraw ==
    /\ ev.kind = "MakeMove" /\ ev.moves = 9 /\ game.state = StateDraw

====
